---- MODULE Spec2Model ----
(***************************************************************************)
(* Model of the expression engine of Sci-Calc (src/src/engine/evaluate.ts): *)
(* evaluate = tokenize -> toRpn -> evalRpn, one action per loop iteration   *)
(* of each stage.                                                           *)
(*                                                                          *)
(* Numbers.  A JavaScript number is modelled in sign-magnitude form as the  *)
(* record [k, s, n, d, f]:                                                  *)
(*   k = "fin"  the rational (-1)^s * n/d in lowest terms (n = 0 keeps its  *)
(*              sign bit: +0 and -0 are different values that compare       *)
(*              equal, as in IEEE 754);                                     *)
(*   k = "inf"  (-1)^s * Infinity;   k = "nan"  NaN;                        *)
(*   k = "sym"  the finite value (-1)^s * n/d * B, B being the irrational  *)
(*              constant named by f (Math.PI, Math.E, or the result of a    *)
(*              transcendental function at an exactly known argument);      *)
(*   k = "oow"  a value outside the window n, d <= MaxMag of the model;     *)
(*   k = "obj", "str"  a value that is no number: the function object an    *)
(*              inherited key of CONSTANTS names, and a string made by + on *)
(*              it (Number.isFinite is false of both).                      *)
(* Arithmetic on "fin" values is exact (the rounding of IEEE doubles is     *)
(* abstracted away); a step that would produce an "oow" value is not taken  *)
(* by the model (it is outside the model's bounds).                         *)
(*                                                                          *)
(* Text.  An expression text is a sequence of one-character strings; the    *)
(* non-ASCII glyphs of the source are written "PI" (U+03C0), "TIMES"        *)
(* (U+00D7) and "DIVIDE" (U+00F7).                                          *)
(*                                                                          *)
(* Messages.  The Japanese messages of the source are written as ASCII      *)
(* tags; the source line of each is given where it is thrown.               *)
(***************************************************************************)
EXTENDS Integers, Sequences, FiniteSets, TLC

\* ------------------------------------------------------------------ bounds
\* Largest numerator and denominator the model represents exactly.
MaxMag == 20000

\* Digit runs of a literal are read exactly below this value.
DigitCap == 100000000

\* Longest text of the infix universe (number literals, + - * /, parens).
MaxInfixLen == 7

\* Longest text of the power universe (also ^ and unary minus).
MaxPowLen == 5

\* Most lexemes of a text of the raw universe and of the ans universe.
MaxRawLen == 4

MaxAnsLen == 4

\* Most calls of evaluate in one behaviour of SpecCalls.
MaxCalls == 3

\* Most lexemes of a text of the syntax universe, and most lexemes left out
\* of one of its seed texts.
MaxSynLen == 5

MaxDrop == 2

\* Most lexemes of an operator text of the syntax universe.
MaxOpLen == 3

\* Most lexemes of a text of the literal universe, of the identifier universe.
MaxLitLen == 5

MaxIdentLen == 4

\* An input key of the page is pressed while the expression line is shorter
\* than MaxUiLen characters; most presses of the = key in one behaviour of
\* SpecUi.
MaxUiLen == 1

MaxEvals == 2

\* ------------------------------------------------------------------ numbers
RECURSIVE GCD(_, _)
GCD(a, b) == IF b = 0 THEN a ELSE GCD(b, a % b)

Oow == [k |-> "oow", s |-> 0, n |-> 0, d |-> 1, f |-> ""]

NaN == [k |-> "nan", s |-> 0, n |-> 0, d |-> 1, f |-> ""]

Inf(s) == [k |-> "inf", s |-> s, n |-> 0, d |-> 1, f |-> ""]

\* (-1)^s * n/d * (the constant named f; "" is 1), reduced; outside the
\* window it is Oow.
Scaled(s, n, d, f) ==
  LET g == GCD(n, d)
      nn == n \div g
      dd == d \div g
  IN IF nn > MaxMag \/ dd > MaxMag THEN Oow
     ELSE [k |-> IF f = "" \/ nn = 0 THEN "fin" ELSE "sym",
           s |-> s, n |-> nn, d |-> dd, f |-> IF nn = 0 THEN "" ELSE f]

Fin(s, n, d) == Scaled(s, n, d, "")

Num(i) == IF i < 0 THEN Fin(1, -i, 1) ELSE Fin(0, i, 1)

Sym(f) == Scaled(0, 1, 1, f)

IsZero(v) == v.k = "fin" /\ v.n = 0

\* The function object Object (CONSTANTS['constructor']) and the string that
\* + makes of an object or a string and anything else.
ObjectFunction == [k |-> "obj", s |-> 0, n |-> 0, d |-> 1, f |-> "Object"]

StringValue == [k |-> "str", s |-> 0, n |-> 0, d |-> 1, f |-> ""]

IsNumber(v) == v.k \notin {"obj", "str"}

\* ToNumber: the function object and every string made of it are NaN.
ToNumber(v) == IF IsNumber(v) THEN v ELSE NaN

\* Number.isFinite
IsFiniteNumber(v) == v.k \in {"fin", "sym"}

Xor(a, b) == IF a = b THEN 0 ELSE 1

\* Signed numerator of a finite value.
SNum(v) == IF v.s = 1 THEN -v.n ELSE v.n

Abs(i) == IF i < 0 THEN -i ELSE i

\* a === b on numbers (NaN is equal to nothing, +0 equals -0).
NumEq(a, b) ==
  /\ a.k # "nan" /\ b.k # "nan"
  /\ \/ /\ a.k \in {"fin", "sym"} /\ a.k = b.k /\ a.f = b.f
        /\ a.n = b.n /\ a.d = b.d /\ (a.n = 0 \/ a.s = b.s)
     \/ a.k = "inf" /\ b.k = "inf" /\ a.s = b.s

\* The constants whose sign is known: Math.PI and Math.E are positive.
PositiveSyms == {"pi", "e"}

\* The order of a and b is known to the model.
Comparable(a, b) ==
  /\ a.k \in {"fin", "inf", "sym"} /\ b.k \in {"fin", "inf", "sym"}
  /\ a.k = "sym" =>
       /\ a.f \in PositiveSyms
       /\ b.k = "inf" \/ IsZero(b) \/ b.s # a.s \/ (b.k = "sym" /\ b.f = a.f)
  /\ b.k = "sym" =>
       /\ b.f \in PositiveSyms
       /\ a.k = "inf" \/ IsZero(a) \/ b.s # a.s \/ (a.k = "sym" /\ b.f = a.f)

\* a < b, where Comparable(a, b) (FALSE when either is NaN).
NumLt(a, b) ==
  /\ a.k \in {"fin", "inf", "sym"} /\ b.k \in {"fin", "inf", "sym"}
  /\ IF a.k = "inf" THEN a.s = 1 /\ ~(b.k = "inf" /\ b.s = 1)
     ELSE IF b.k = "inf" THEN b.s = 0
     ELSE SNum(a) * b.d < SNum(b) * a.d

\* Unary minus: flips the sign bit.
Neg(v) == IF v.k \in {"nan", "oow"} THEN v ELSE [v EXCEPT !.s = 1 - v.s]

\* left + right
Add(a, b) ==
  IF a.k = "oow" \/ b.k = "oow" THEN Oow
  ELSE IF a.k = "nan" \/ b.k = "nan" THEN NaN
  ELSE IF a.k = "inf" /\ b.k = "inf" THEN (IF a.s = b.s THEN a ELSE NaN)
  ELSE IF a.k = "inf" THEN a
  ELSE IF b.k = "inf" THEN b
  ELSE IF IsZero(a) /\ IsZero(b) THEN Fin(IF a.s = 1 /\ b.s = 1 THEN 1 ELSE 0, 0, 1)
  ELSE IF IsZero(a) THEN b
  ELSE IF IsZero(b) THEN a
  ELSE IF a.f # b.f THEN Oow
  ELSE LET num == SNum(a) * b.d + SNum(b) * a.d
       IN Scaled(IF num < 0 THEN 1 ELSE 0, Abs(num), a.d * b.d, a.f)

\* left - right
Sub(a, b) == Add(a, Neg(b))

\* The + operator: string concatenation when an operand is no number.
Plus(a, b) == IF IsNumber(a) /\ IsNumber(b) THEN Add(a, b) ELSE StringValue

\* left * right
Mul(a, b) ==
  IF a.k = "oow" \/ b.k = "oow" THEN Oow
  ELSE IF a.k = "nan" \/ b.k = "nan" THEN NaN
  ELSE IF a.k = "inf" \/ b.k = "inf" THEN
         (IF IsZero(a) \/ IsZero(b) THEN NaN ELSE Inf(Xor(a.s, b.s)))
  ELSE IF a.k = "sym" /\ b.k = "sym" THEN Oow
  ELSE Scaled(Xor(a.s, b.s), a.n * b.n, a.d * b.d, IF a.k = "sym" THEN a.f ELSE b.f)

\* left / right
Div(a, b) ==
  IF a.k = "oow" \/ b.k = "oow" THEN Oow
  ELSE IF a.k = "nan" \/ b.k = "nan" THEN NaN
  ELSE IF a.k = "inf" THEN (IF b.k = "inf" THEN NaN ELSE Inf(Xor(a.s, b.s)))
  ELSE IF b.k = "inf" THEN Fin(Xor(a.s, b.s), 0, 1)
  ELSE IF IsZero(b) THEN (IF IsZero(a) THEN NaN ELSE Inf(Xor(a.s, b.s)))
  ELSE IF b.k = "sym" /\ a.f # b.f /\ ~IsZero(a) THEN Oow
  ELSE Scaled(Xor(a.s, b.s), a.n * b.d, a.d * b.n, IF b.k = "sym" THEN "" ELSE a.f)

\* b^e for naturals, capped just above the window.
RECURSIVE IPow(_, _, _)
IPow(b, e, acc) ==
  IF e = 0 \/ acc > MaxMag THEN acc ELSE IPow(b, e - 1, acc * b)

NatPow(b, e) == IF b <= 1 THEN (IF e = 0 THEN 1 ELSE b) ELSE IPow(b, e, 1)

IsOddInt(v) == v.k = "fin" /\ v.d = 1 /\ v.n % 2 = 1

\* |a| compared with 1: -1 below, 0 equal, 1 above (a finite, exactly known).
MagVsOne(a) == IF a.n < a.d THEN -1 ELSE IF a.n = a.d THEN 0 ELSE 1

\* Math.pow(left, right) (ECMAScript Number::exponentiate).
Pow(a, b) ==
  IF a.k = "oow" \/ b.k = "oow" THEN Oow
  ELSE IF b.k = "nan" THEN NaN
  ELSE IF IsZero(b) THEN Fin(0, 1, 1)
  ELSE IF a.k = "nan" THEN NaN
  ELSE IF b.k = "sym" \/ a.k = "sym" THEN Oow
  ELSE IF a.k = "inf" THEN
         (IF b.s = 0 THEN Inf(IF a.s = 1 /\ IsOddInt(b) THEN 1 ELSE 0)
          ELSE Fin(IF a.s = 1 /\ IsOddInt(b) THEN 1 ELSE 0, 0, 1))
  ELSE IF IsZero(a) THEN
         (IF b.s = 0 THEN Fin(IF a.s = 1 /\ IsOddInt(b) THEN 1 ELSE 0, 0, 1)
          ELSE Inf(IF a.s = 1 /\ IsOddInt(b) THEN 1 ELSE 0))
  ELSE IF b.k = "inf" THEN
         (IF MagVsOne(a) = 0 THEN NaN
          ELSE IF (MagVsOne(a) = 1) = (b.s = 0) THEN Inf(0)
          ELSE Fin(0, 0, 1))
  ELSE IF b.d # 1 THEN
         (IF a.s = 1 THEN NaN
          ELSE IF MagVsOne(a) = 0 THEN Fin(0, 1, 1)
          ELSE Oow)
  ELSE LET s == IF a.s = 1 /\ IsOddInt(b) THEN 1 ELSE 0
           pn == NatPow(a.n, b.n)
           pd == NatPow(a.d, b.n)
       IN IF pn > MaxMag \/ pd > MaxMag THEN Oow
          ELSE IF b.s = 0 THEN Fin(s, pn, pd) ELSE Fin(s, pd, pn)

\* ------------------------------------------------------------------ text
Digits == <<"0", "1", "2", "3", "4", "5", "6", "7", "8", "9">>

LowerCase == <<"a", "b", "c", "d", "e", "f", "g", "h", "i", "j", "k", "l", "m",
               "n", "o", "p", "q", "r", "s", "t", "u", "v", "w", "x", "y", "z">>

UpperCase == <<"A", "B", "C", "D", "E", "F", "G", "H", "I", "J", "K", "L", "M",
               "N", "O", "P", "Q", "R", "S", "T", "U", "V", "W", "X", "Y", "Z">>

Range(q) == {q[j] : j \in DOMAIN q}

IndexOf(q, x) == CHOOSE j \in DOMAIN q : q[j] = x

isWhitespace(ch) == ch \in {" ", "\t", "\n", "\r"}

isDigit(ch) == ch \in Range(Digits)

isAlpha(ch) == ch \in Range(LowerCase) \cup Range(UpperCase)

isOperator(ch) == ch \in {"+", "-", "*", "/", "^", "TIMES", "DIVIDE"}

normalizeOperator(ch) ==
  IF ch = "TIMES" THEN "*" ELSE IF ch = "DIVIDE" THEN "/" ELSE ch

DigitValue(ch) == IndexOf(Digits, ch) - 1

\* Mutant: the name is compared as written.
asWritten(ch) == ch

\* String.prototype.toLowerCase on one ASCII letter.
toLowerCase(ch) ==
  IF ch \in Range(UpperCase) THEN LowerCase[IndexOf(UpperCase, ch)] ELSE ch

\* input.slice(start, i).toLowerCase() as one string (from and to inclusive).
RECURSIVE LowerSlice(_, _, _)
LowerSlice(input, from, to) ==
  IF from > to THEN ""
  ELSE toLowerCase(input[from]) \o LowerSlice(input, from + 1, to)

FUNCTIONS == {"sin", "cos", "tan", "asin", "acos", "atan", "log", "ln",
              "sqrt", "abs", "exp", "min", "max"}

\* CONSTANTS: Math.PI and Math.E, as symbolic constants.
ConstantsTable == [n \in {"pi", "e"} |-> Sym(n)]

\* The keys CONSTANTS inherits from Object.prototype that a lower-cased run
\* of ASCII letters can spell.
InheritedKeys == {"constructor"}

\* name in CONSTANTS
InConstants(name) == name \in DOMAIN ConstantsTable \cup InheritedKeys

\* CONSTANTS[name], where name in CONSTANTS.
ConstantValue(name) ==
  IF name \in DOMAIN ConstantsTable THEN ConstantsTable[name] ELSE ObjectFunction

\* Mutant: the unary operators bind tighter than ^.
PrecedenceUnaryFirst(op) ==
  CASE op = "^" -> 4
    [] op \in {"u+", "u-"} -> 5
    [] op \in {"*", "/"} -> 2
    [] op \in {"+", "-"} -> 1

\* Mutant: * and / bind no tighter than + and -.
PrecedenceFlat(op) ==
  CASE op = "^" -> 4
    [] op \in {"u+", "u-"} -> 3
    [] op \in {"*", "/", "+", "-"} -> 1

\* Mutant: the unary operators bind no tighter than + and -.
PrecedenceUnaryLow(op) ==
  CASE op = "^" -> 4
    [] op \in {"u+", "u-"} -> 1
    [] op \in {"*", "/"} -> 2
    [] op \in {"+", "-"} -> 1

PRECEDENCE(op) ==
  CASE op = "^" -> 4
    [] op \in {"u+", "u-"} -> 3
    [] op \in {"*", "/"} -> 2
    [] op \in {"+", "-"} -> 1

\* Mutant: ^ is taken as left-associative.
RightAssocUnaryOnly == {"u+", "u-"}

RIGHT_ASSOC == {"^", "u+", "u-"}

\* ------------------------------------------------------------------ tokens
\* Token and RpnToken: str is the operator, the paren or the name; argCount
\* is used by RPN function tokens only.
NumberToken(v) == [type |-> "number", num |-> v, str |-> "", argCount |-> 0]

OperatorToken(op) == [type |-> "operator", num |-> Num(0), str |-> op, argCount |-> 0]

ParenToken(ch) == [type |-> "paren", num |-> Num(0), str |-> ch, argCount |-> 0]

CommaToken == [type |-> "comma", num |-> Num(0), str |-> ",", argCount |-> 0]

FunctionToken(name) == [type |-> "function", num |-> Num(0), str |-> name, argCount |-> 0]

VariableToken(name) == [type |-> "variable", num |-> Num(0), str |-> name, argCount |-> 0]

RpnFunction(name, argCount) ==
  [type |-> "function", num |-> Num(0), str |-> name, argCount |-> argCount]

\* ------------------------------------------------------------------ parseFloat
\* Digit run from index j of raw: [j: the index after it, val: its value
\* (saturating at DigitCap), cnt: its length].
RECURSIVE Pow10(_)
Pow10(x) == IF x = 0 THEN 1 ELSE 10 * Pow10(x - 1)

RECURSIVE DigitRun(_, _, _, _)
DigitRun(raw, j, val, cnt) ==
  IF j <= Len(raw) /\ isDigit(raw[j])
  THEN DigitRun(raw, j + 1,
                IF val >= DigitCap THEN val ELSE val * 10 + DigitValue(raw[j]),
                cnt + 1)
  ELSE [j |-> j, val |-> val, cnt |-> cnt]

\* Number.parseFloat(raw) for a raw text that begins with a digit or a dot:
\* the value of the longest prefix that is a decimal literal, NaN if none.
\* m * 10^(x - fraction digits) is Infinity from 1e309 on and 0 below 1e-324.
parseFloat(raw) ==
  LET ip == DigitRun(raw, 1, 0, 0)
      dot == ip.j <= Len(raw) /\ raw[ip.j] = "."
      fp == IF dot THEN DigitRun(raw, ip.j + 1, ip.val, 0)
            ELSE [j |-> ip.j, val |-> ip.val, cnt |-> 0]
      isE == fp.j <= Len(raw) /\ raw[fp.j] \in {"e", "E"}
      sgn == isE /\ fp.j + 1 <= Len(raw) /\ raw[fp.j + 1] \in {"+", "-"}
      ep == IF isE THEN DigitRun(raw, fp.j + (IF sgn THEN 2 ELSE 1), 0, 0)
            ELSE [j |-> fp.j, val |-> 0, cnt |-> 0]
      x == IF ep.cnt = 0 THEN 0
           ELSE IF sgn /\ raw[fp.j + 1] = "-" THEN -ep.val ELSE ep.val
      m == fp.val
      e10 == x - fp.cnt
  IN IF ip.cnt + fp.cnt = 0 THEN NaN
     ELSE IF m = 0 THEN Fin(0, 0, 1)
     ELSE IF m >= DigitCap THEN Oow
     ELSE IF e10 >= 309 THEN Inf(0)
     ELSE IF e10 <= -334 THEN Fin(0, 0, 1)
     ELSE IF e10 >= 0
       THEN (IF m > MaxMag \/ NatPow(10, e10) > MaxMag THEN Oow
             ELSE Fin(0, m * NatPow(10, e10), 1))
     ELSE IF -e10 > 8 THEN Oow
     ELSE Fin(0, m, Pow10(-e10))

\* ------------------------------------------------------------------ calls
\* One call of evaluate: its control state and its local arrays.
\*   pc        "idle", "tokenize", "toRpn", "evalRpn", "return", "catch", "done"
\*   stages    the stages the call has entered, in order
\*   i, t, k   positions of the loops of tokenize, toRpn and evalRpn (from 1)
\*   tokens    tokenize's tokens;  output, stack, argStack: toRpn's arrays;
\*   estack    evalRpn's operand stack
null == -1

\* What Array.prototype.pop returns on an empty array.
undefined == -2

Pending == [pending |-> TRUE]

NoContext == [mode |-> "DEG", hasAns |-> FALSE, ans |-> Num(0)]

IdleCall ==
  [pc |-> "idle", expression |-> <<>>, context |-> NoContext, stages |-> <<>>,
   i |-> 1, t |-> 1, k |-> 1, lastType |-> "start", value |-> Num(0),
   thrown |-> "", result |-> Pending,
   tokens |-> <<>>, output |-> <<>>, stack |-> <<>>, argStack |-> <<>>,
   estack |-> <<>>]

\* throw new Error(message): control passes to evaluate's catch block.
Throw(c, message) == [c EXCEPT !.pc = "catch", !.thrown = message]

\* A step whose value lies outside the window of the model.
Beyond(c) == [c EXCEPT !.pc = "beyond"]

\* ------------------------------------------------------------------ tokenize
\* The mantissa loop: [i, hasDigit, hasDot] when it ends.
RECURSIVE ScanMantissa(_, _, _, _)
ScanMantissa(input, i, hasDigit, hasDot) ==
  IF i <= Len(input) /\ isDigit(input[i])
    THEN ScanMantissa(input, i + 1, TRUE, hasDot)
  ELSE IF i <= Len(input) /\ input[i] = "." /\ ~hasDot
    THEN ScanMantissa(input, i + 1, hasDigit, TRUE)
  ELSE [i |-> i, hasDigit |-> hasDigit, hasDot |-> hasDot]

\* while (j < input.length && isDigit(input[j])) j += 1
RECURSIVE ScanDigits(_, _)
ScanDigits(input, j) ==
  IF j <= Len(input) /\ isDigit(input[j]) THEN ScanDigits(input, j + 1) ELSE j

\* Mutant: the e and its sign are consumed even when no digit follows.
ScanExponentEager(input, i) ==
  IF i <= Len(input) /\ input[i] \in {"e", "E"}
  THEN LET j == i + 1
           expStart == IF j <= Len(input) /\ input[j] \in {"+", "-"}
                       THEN j + 1 ELSE j
       IN ScanDigits(input, expStart)
  ELSE i

\* The exponent suffix: the position after it, or i when no digit follows.
ScanExponent(input, i) ==
  IF i <= Len(input) /\ input[i] \in {"e", "E"}
  THEN LET j == i + 1
           expStart == IF j <= Len(input) /\ input[j] \in {"+", "-"}
                       THEN j + 1 ELSE j
           jEnd == ScanDigits(input, expStart)
       IN IF jEnd > expStart THEN jEnd ELSE i
  ELSE i

\* while (i < input.length && isAlpha(input[i])) i += 1
RECURSIVE ScanAlpha(_, _)
ScanAlpha(input, i) ==
  IF i <= Len(input) /\ isAlpha(input[i]) THEN ScanAlpha(input, i + 1) ELSE i

\* Mutant: the token is pushed and the scan position stays where it is.
PushTokenInPlace(c, token, next) ==
  [c EXCEPT !.tokens = Append(@, token)]

\* tokens.push(token); i = next; continue
PushToken(c, token, next) ==
  [c EXCEPT !.tokens = Append(@, token), !.i = next]

\* The branch of the scanning loop for a numeric literal.
TokenizeNumber(c) ==
  LET input == c.expression
      m == ScanMantissa(input, c.i, FALSE, FALSE)
      i == ScanExponent(input, m.i)
      raw == SubSeq(input, c.i, i - 1)
      value == parseFloat(raw)
  IN IF ~m.hasDigit THEN Throw(c, "malformed number")
     ELSE IF value.k = "nan" THEN Throw(c, "malformed number")
     ELSE IF value.k = "oow" THEN Beyond(c)
     ELSE PushToken(c, NumberToken(value), i)

\* The branch of the scanning loop for an identifier.
TokenizeIdentifier(c) ==
  LET input == c.expression
      i == ScanAlpha(input, c.i)
      name == LowerSlice(input, c.i, i - 1)
  IN IF name \in FUNCTIONS THEN PushToken(c, FunctionToken(name), i)
     ELSE IF InConstants(name)
       THEN PushToken(c, NumberToken(ConstantValue(name)), i)
     ELSE IF name = "ans" THEN PushToken(c, VariableToken(name), i)
     ELSE Throw(c, "unknown token: " \o name)

\* Mutant: toRpn is called without the empty check.
AfterTokenizeUnchecked(c) ==
  [c EXCEPT !.pc = "toRpn", !.stages = Append(@, "toRpn"), !.t = 1,
            !.output = <<>>, !.stack = <<>>, !.argStack = <<>>,
            !.lastType = "start"]

\* evaluate, after tokenize has returned: the empty check and the call of
\* toRpn (whose locals are initialised here).
AfterTokenize(c) ==
  IF Len(c.tokens) = 0
  THEN [c EXCEPT !.pc = "done", !.result = [ok |-> FALSE, error |-> "empty expression"]]
  ELSE [c EXCEPT !.pc = "toRpn", !.stages = Append(@, "toRpn"), !.t = 1,
                 !.output = <<>>, !.stack = <<>>, !.argStack = <<>>,
                 !.lastType = "start"]

\* Mutant: the scan stops at a character it does not know and hands over
\* the tokens read so far; the error is left for later.
TokenizeStepLazy(c) ==
  LET input == c.expression
      ch == input[c.i]
  IN IF c.i > Len(input) THEN AfterTokenize(c)
     ELSE IF isWhitespace(ch) THEN [c EXCEPT !.i = @ + 1]
     ELSE IF isDigit(ch) \/ ch = "." THEN TokenizeNumber(c)
     ELSE IF isAlpha(ch) THEN TokenizeIdentifier(c)
     ELSE IF ch = "PI" THEN PushToken(c, NumberToken(ConstantsTable["pi"]), c.i + 1)
     ELSE IF ch = "," THEN PushToken(c, CommaToken, c.i + 1)
     ELSE IF ch \in {"(", ")"} THEN PushToken(c, ParenToken(ch), c.i + 1)
     ELSE IF isOperator(ch)
       THEN PushToken(c, OperatorToken(normalizeOperator(ch)), c.i + 1)
     ELSE AfterTokenize(c)

\* One iteration of tokenize's scanning loop, or its end.
TokenizeStep(c) ==
  LET input == c.expression
      ch == input[c.i]
  IN IF c.i > Len(input) THEN AfterTokenize(c)
     ELSE IF isWhitespace(ch) THEN [c EXCEPT !.i = @ + 1]
     ELSE IF isDigit(ch) \/ ch = "." THEN TokenizeNumber(c)
     ELSE IF isAlpha(ch) THEN TokenizeIdentifier(c)
     ELSE IF ch = "PI" THEN PushToken(c, NumberToken(ConstantsTable["pi"]), c.i + 1)
     ELSE IF ch = "," THEN PushToken(c, CommaToken, c.i + 1)
     ELSE IF ch \in {"(", ")"} THEN PushToken(c, ParenToken(ch), c.i + 1)
     ELSE IF isOperator(ch)
       THEN PushToken(c, OperatorToken(normalizeOperator(ch)), c.i + 1)
     ELSE Throw(c, "unknown character: " \o ch)

\* ------------------------------------------------------------------ toRpn
Last(q) == q[Len(q)]

Front(q) == SubSeq(q, 1, Len(q) - 1)

\* toRpnToken: the RPN form of a stack token; a token of any other type
\* makes it throw, written here as a token of type "error".
toRpnToken(token) ==
  IF token.type \in {"number", "operator", "variable"} THEN token
  ELSE IF token.type = "function" THEN RpnFunction(token.str, 1)
  ELSE [token EXCEPT !.type = "error"]

\* while (stack.length > 0 && top.type !== 'paren') output.push(toRpnToken(stack.pop()))
RECURSIVE PopToParen(_, _)
PopToParen(stack, output) ==
  IF Len(stack) > 0 /\ Last(stack).type # "paren"
  THEN PopToParen(Front(stack), Append(output, toRpnToken(Last(stack))))
  ELSE [stack |-> stack, output |-> output]

HasConversionError(output) == \E j \in DOMAIN output : output[j].type = "error"

\* The operator branch's loop: pops the operators that bind at least as
\* tightly as op (more tightly, for a right-associative op).
shouldPop(op, topOp) ==
  IF op \in RIGHT_ASSOC THEN PRECEDENCE(op) < PRECEDENCE(topOp)
  ELSE PRECEDENCE(op) <= PRECEDENCE(topOp)

RECURSIVE PopOperators(_, _, _)
PopOperators(stack, output, op) ==
  IF Len(stack) > 0 /\ Last(stack).type = "operator" /\ shouldPop(op, Last(stack).str)
  THEN PopOperators(Front(stack), Append(output, toRpnToken(Last(stack))), op)
  ELSE [stack |-> stack, output |-> output]

\* Mutant: a + or - after a function name is taken as unary too.
UnaryContextsAndFunction == {"start", "operator", "lparen", "comma", "function"}

\* A + or - is unary after these kinds of token.
UnaryContexts == {"start", "operator", "lparen", "comma"}

isUnary(op, lastType) == op \in {"+", "-"} /\ lastType \in UnaryContexts

ToRpnValue(c, token) ==
  [c EXCEPT !.output = Append(@, token), !.lastType = "value", !.t = @ + 1]

ToRpnFunction(c, token) ==
  [c EXCEPT !.stack = Append(@, token), !.lastType = "function", !.t = @ + 1]

\* Mutant: a comma is counted by every open call, not only the innermost.
ToRpnCommaAll(c) ==
  IF Len(c.argStack) = 0 \/ Last(c.argStack) = null
    THEN Throw(c, "misplaced comma")
  ELSE IF c.lastType \in {"comma", "lparen"}
    THEN Throw(c, "missing function argument")
  ELSE LET r == PopToParen(c.stack, c.output)
       IN [c EXCEPT !.stack = r.stack, !.output = r.output,
                    !.argStack = [j \in DOMAIN @ |-> IF @[j] = null THEN null ELSE @[j] + 1],
                    !.lastType = "comma", !.t = @ + 1]

ToRpnComma(c) ==
  IF Len(c.argStack) = 0 \/ Last(c.argStack) = null
    THEN Throw(c, "misplaced comma")
  ELSE IF c.lastType \in {"comma", "lparen"}
    THEN Throw(c, "missing function argument")
  ELSE LET r == PopToParen(c.stack, c.output)
       IN IF HasConversionError(r.output) THEN Throw(c, "token conversion error")
          ELSE [c EXCEPT !.stack = r.stack, !.output = r.output,
                         !.argStack = [@ EXCEPT ![Len(@)] = @ + 1],
                         !.lastType = "comma", !.t = @ + 1]

\* Mutant: every '(' opens a call, with an argument counter of 0.
ToRpnLeftParenCall(c, token) ==
  [c EXCEPT !.stack = Append(@, token),
            !.argStack = Append(@, 0),
            !.lastType = "lparen", !.t = @ + 1]

ToRpnLeftParen(c, token) ==
  [c EXCEPT !.stack = Append(@, token),
            !.argStack = Append(@, IF c.lastType = "function" THEN 0 ELSE null),
            !.lastType = "lparen", !.t = @ + 1]

\* Mutant: a ')' is accepted after a '(' and after a comma.
ToRpnRightParenLax(c) ==
  LET r == PopToParen(c.stack, c.output)
      argCount == IF Len(c.argStack) = 0 THEN undefined ELSE Last(c.argStack)
      argRest == IF Len(c.argStack) = 0 THEN <<>> ELSE Front(c.argStack)
      stack1 == Front(r.stack)
  IN IF HasConversionError(r.output) THEN Throw(c, "token conversion error")
     ELSE IF Len(r.stack) = 0 THEN Throw(c, "unbalanced parentheses")
     ELSE IF argCount = null
       THEN [c EXCEPT !.stack = stack1, !.output = r.output,
                      !.argStack = argRest, !.lastType = "rparen", !.t = @ + 1]
     ELSE IF Len(stack1) = 0 \/ Last(stack1).type # "function"
       THEN Throw(c, "malformed function call")
     ELSE [c EXCEPT
             !.stack = Front(stack1),
             !.output = Append(r.output,
                               RpnFunction(Last(stack1).str,
                                           IF argCount = undefined THEN undefined
                                           ELSE argCount + 1)),
             !.argStack = argRest, !.lastType = "rparen", !.t = @ + 1]

\* Mutant: a call's instruction carries the number of commas of the call,
\* without the 1 for its last argument.
ToRpnRightParenCommas(c) ==
  IF c.lastType \in {"comma", "lparen"} THEN Throw(c, "missing function argument")
  ELSE LET r == PopToParen(c.stack, c.output)
           argCount == IF Len(c.argStack) = 0 THEN undefined ELSE Last(c.argStack)
           argRest == IF Len(c.argStack) = 0 THEN <<>> ELSE Front(c.argStack)
           stack1 == Front(r.stack)
       IN IF HasConversionError(r.output) THEN Throw(c, "token conversion error")
          ELSE IF Len(r.stack) = 0 THEN Throw(c, "unbalanced parentheses")
          ELSE IF argCount = null
            THEN [c EXCEPT !.stack = stack1, !.output = r.output,
                           !.argStack = argRest, !.lastType = "rparen", !.t = @ + 1]
          ELSE IF Len(stack1) = 0 \/ Last(stack1).type # "function"
            THEN Throw(c, "malformed function call")
          ELSE [c EXCEPT
                  !.stack = Front(stack1),
                  !.output = Append(r.output, RpnFunction(Last(stack1).str, argCount)),
                  !.argStack = argRest, !.lastType = "rparen", !.t = @ + 1]

ToRpnRightParen(c) ==
  IF c.lastType \in {"comma", "lparen"} THEN Throw(c, "missing function argument")
  ELSE LET r == PopToParen(c.stack, c.output)
           argCount == IF Len(c.argStack) = 0 THEN undefined ELSE Last(c.argStack)
           argRest == IF Len(c.argStack) = 0 THEN <<>> ELSE Front(c.argStack)
           stack1 == Front(r.stack)
       IN IF HasConversionError(r.output) THEN Throw(c, "token conversion error")
          ELSE IF Len(r.stack) = 0 THEN Throw(c, "unbalanced parentheses")
          ELSE IF argCount = null
            THEN [c EXCEPT !.stack = stack1, !.output = r.output,
                           !.argStack = argRest, !.lastType = "rparen", !.t = @ + 1]
          ELSE IF Len(stack1) = 0 \/ Last(stack1).type # "function"
            THEN Throw(c, "malformed function call")
          ELSE [c EXCEPT
                  !.stack = Front(stack1),
                  !.output = Append(r.output,
                                    RpnFunction(Last(stack1).str,
                                                IF argCount = undefined THEN undefined
                                                ELSE argCount + 1)),
                  !.argStack = argRest, !.lastType = "rparen", !.t = @ + 1]

ToRpnOperator(c, token) ==
  LET unary == isUnary(token.str, c.lastType)
      op == IF unary THEN (IF token.str = "+" THEN "u+" ELSE "u-") ELSE token.str
      r == IF unary THEN [stack |-> c.stack, output |-> c.output]
           ELSE PopOperators(c.stack, c.output, op)
  IN [c EXCEPT !.stack = Append(r.stack, OperatorToken(op)), !.output = r.output,
               !.lastType = "operator", !.t = @ + 1]

\* Mutant: a '(' left on the stack is dropped.
RECURSIVE DrainSkipParen(_, _)
DrainSkipParen(stack, output) ==
  IF Len(stack) = 0 THEN [output |-> output, paren |-> FALSE]
  ELSE IF Last(stack).type = "paren" THEN DrainSkipParen(Front(stack), output)
  ELSE DrainSkipParen(Front(stack), Append(output, toRpnToken(Last(stack))))

\* The drain loop after the scan: [stack, output, paren: a '(' was met].
RECURSIVE Drain(_, _)
Drain(stack, output) ==
  IF Len(stack) = 0 THEN [output |-> output, paren |-> FALSE]
  ELSE IF Last(stack).type = "paren" THEN [output |-> output, paren |-> TRUE]
  ELSE Drain(Front(stack), Append(output, toRpnToken(Last(stack))))

\* Mutant: the operator stack is drained before the last token is looked at.
ToRpnEndDrainFirst(c) ==
  LET r == Drain(c.stack, c.output)
  IN IF r.paren THEN Throw(c, "unbalanced parentheses")
     ELSE IF c.lastType \in {"operator", "comma", "lparen", "function"}
       THEN Throw(c, "incomplete expression")
     ELSE IF HasConversionError(r.output) THEN Throw(c, "token conversion error")
     ELSE [c EXCEPT !.pc = "evalRpn", !.stages = Append(@, "evalRpn"),
                    !.stack = <<>>, !.output = r.output,
                    !.k = 1, !.estack = <<>>]

\* The end of toRpn, and evaluate's call of evalRpn on what it returns.
ToRpnEnd(c) ==
  IF c.lastType \in {"operator", "comma", "lparen", "function"}
    THEN Throw(c, "incomplete expression")
  ELSE LET r == Drain(c.stack, c.output)
       IN IF r.paren THEN Throw(c, "unbalanced parentheses")
          ELSE IF HasConversionError(r.output) THEN Throw(c, "token conversion error")
          ELSE [c EXCEPT !.pc = "evalRpn", !.stages = Append(@, "evalRpn"),
                         !.stack = <<>>, !.output = r.output,
                         !.k = 1, !.estack = <<>>]

\* One iteration of toRpn's loop over the tokens, or its end.
ToRpnStep(c) ==
  LET token == c.tokens[c.t]
  IN IF c.t > Len(c.tokens) THEN ToRpnEnd(c)
     ELSE IF token.type \in {"number", "variable"} THEN ToRpnValue(c, token)
     ELSE IF token.type = "function" THEN ToRpnFunction(c, token)
     ELSE IF token.type = "comma" THEN ToRpnComma(c)
     ELSE IF token.type = "paren" /\ token.str = "(" THEN ToRpnLeftParen(c, token)
     ELSE IF token.type = "paren" /\ token.str = ")" THEN ToRpnRightParen(c)
     ELSE IF token.type = "operator" THEN ToRpnOperator(c, token)
     ELSE [c EXCEPT !.t = @ + 1]

\* ------------------------------------------------------------------ Math
PI == Sym("pi")

\* The name of an exactly known value, for naming a symbolic result.
NameOf(v) ==
  (IF v.s = 1 THEN "-" ELSE "") \o ToString(v.n) \o "/" \o ToString(v.d) \o v.f

\* f(v) for a transcendental f at a point where it has no exact value.
Transcendental(name, v) ==
  IF v.k \in {"fin", "sym"} THEN Sym(name \o "(" \o NameOf(v) \o ")") ELSE Oow

MathSin(v) ==
  IF v.k \in {"nan", "inf"} THEN NaN
  ELSE IF IsZero(v) THEN v
  ELSE Transcendental("sin", v)

MathCos(v) ==
  IF v.k \in {"nan", "inf"} THEN NaN
  ELSE IF IsZero(v) THEN Num(1)
  ELSE Transcendental("cos", v)

MathTan(v) ==
  IF v.k \in {"nan", "inf"} THEN NaN
  ELSE IF IsZero(v) THEN v
  ELSE Transcendental("tan", v)

\* Math.asin on [-1, 1] or NaN.
MathAsin(v) ==
  IF v.k = "nan" THEN NaN
  ELSE IF IsZero(v) THEN v
  ELSE IF v.k = "fin" /\ v.n = v.d THEN Scaled(v.s, 1, 2, "pi")
  ELSE Transcendental("asin", v)

\* Math.acos on [-1, 1] or NaN.
MathAcos(v) ==
  IF v.k = "nan" THEN NaN
  ELSE IF IsZero(v) THEN Scaled(0, 1, 2, "pi")
  ELSE IF v.k = "fin" /\ v.n = v.d THEN (IF v.s = 0 THEN Num(0) ELSE PI)
  ELSE Transcendental("acos", v)

MathAtan(v) ==
  IF v.k = "nan" THEN NaN
  ELSE IF v.k = "inf" THEN Scaled(v.s, 1, 2, "pi")
  ELSE IF IsZero(v) THEN v
  ELSE IF v.k = "fin" /\ v.n = v.d THEN Scaled(v.s, 1, 4, "pi")
  ELSE Transcendental("atan", v)

\* Math.log on a positive argument, Infinity or NaN.
MathLog(v) ==
  IF v.k = "nan" THEN NaN
  ELSE IF v.k = "inf" THEN Inf(0)
  ELSE IF v.k = "fin" /\ v.n = v.d THEN Num(0)
  ELSE IF v = Sym("e") THEN Num(1)
  ELSE Transcendental("ln", v)

\* Math.log(x) / Math.LN10
Log10(v) ==
  LET l == MathLog(v)
  IN IF l.k \in {"nan", "inf"} \/ IsZero(l) THEN l
     ELSE Transcendental("log", v)

ISqrt(n) == CHOOSE r \in 0..n : r * r <= n /\ (r + 1) * (r + 1) > n

\* Math.sqrt on a non-negative argument, Infinity or NaN.
MathSqrt(v) ==
  IF v.k \in {"nan", "inf"} \/ IsZero(v) THEN v
  ELSE IF v.k = "fin" /\ ISqrt(v.n) * ISqrt(v.n) = v.n /\ ISqrt(v.d) * ISqrt(v.d) = v.d
    THEN Fin(0, ISqrt(v.n), ISqrt(v.d))
  ELSE Transcendental("sqrt", v)

MathAbs(v) == IF v.k \in {"nan", "oow"} THEN v ELSE [v EXCEPT !.s = 0]

\* Math.exp: Infinity from 710 on, 0 from -746 down.
MathExp(v) ==
  IF v.k = "nan" THEN NaN
  ELSE IF v.k = "inf" THEN (IF v.s = 0 THEN Inf(0) ELSE Num(0))
  ELSE IF IsZero(v) THEN Num(1)
  ELSE IF v.k # "fin" THEN Oow
  ELSE IF v = Num(1) THEN Sym("e")
  ELSE IF v.s = 0 /\ v.n >= 710 * v.d THEN Inf(0)
  ELSE IF v.s = 1 /\ v.n >= 746 * v.d THEN Num(0)
  ELSE IF (v.s = 0 /\ v.n > 709 * v.d) \/ (v.s = 1 /\ v.n > 745 * v.d) THEN Oow
  ELSE Transcendental("exp", v)

\* a < b, a = b or a > b, as far as the model knows the order.
Known(a, b) == a.k = "nan" \/ b.k = "nan" \/ Comparable(a, b)

\* Math.min(a, b) and Math.max(a, b), where Known(a, b); -0 is below +0.
Min2(a, b) ==
  IF a.k = "nan" \/ b.k = "nan" THEN NaN
  ELSE IF NumLt(a, b) THEN a
  ELSE IF NumLt(b, a) THEN b
  ELSE IF a.s = 1 THEN a ELSE b

Max2(a, b) ==
  IF a.k = "nan" \/ b.k = "nan" THEN NaN
  ELSE IF NumLt(a, b) THEN b
  ELSE IF NumLt(b, a) THEN a
  ELSE IF a.s = 0 THEN a ELSE b

\* Math.min(...args) and Math.max(...args); Oow where an order is unknown.
RECURSIVE MathMin(_)
MathMin(args) ==
  IF Len(args) = 0 THEN Inf(0)
  ELSE LET m == MathMin(Tail(args))
       IN IF m.k = "oow" \/ ~Known(Head(args), m) THEN Oow ELSE Min2(Head(args), m)

RECURSIVE MathMax(_)
MathMax(args) ==
  IF Len(args) = 0 THEN Inf(1)
  ELSE LET m == MathMax(Tail(args))
       IN IF m.k = "oow" \/ ~Known(Head(args), m) THEN Oow ELSE Max2(Head(args), m)

\* ------------------------------------------------------------------ evalRpn
\* stack.push(value); continue
PushValue(c, stack, value) ==
  IF value.k = "oow" THEN Beyond(c)
  ELSE [c EXCEPT !.estack = Append(stack, value), !.k = @ + 1]

\* Mutant: only +0 counts as a zero divisor (Object.is(right, 0)).
isPlusZero(right) == IsZero(right) /\ right.s = 0

\* right === 0
isZeroDivisor(right) == IsZero(right)

applyOperator(c, op) ==
  LET stack == c.estack
      n == Len(stack)
  IN IF op \in {"u+", "u-"}
     THEN IF n = 0 THEN Throw(c, "unary operand missing")
          ELSE PushValue(c, Front(stack),
                         IF op = "u-" THEN Neg(ToNumber(stack[n])) ELSE stack[n])
     ELSE IF n < 2
       THEN Throw([c EXCEPT !.estack = <<>>], "operator operands missing")
     ELSE LET right == stack[n]
              left == stack[n - 1]
              rest == SubSeq(stack, 1, n - 2)
              l == ToNumber(left)
              r == ToNumber(right)
          IN CASE op = "+" -> PushValue(c, rest, Plus(left, right))
               [] op = "-" -> PushValue(c, rest, Sub(l, r))
               [] op = "*" -> PushValue(c, rest, Mul(l, r))
               [] op = "/" -> IF isZeroDivisor(right)
                              THEN Throw([c EXCEPT !.estack = rest], "division by zero")
                              ELSE PushValue(c, rest, Div(l, r))
               [] op = "^" -> PushValue(c, rest, Pow(l, r))
               [] OTHER -> Throw([c EXCEPT !.estack = rest], "unknown operator: " \o op)

RECURSIVE Reversed(_)
Reversed(q) == IF q = <<>> THEN <<>> ELSE Append(Reversed(Tail(q)), Head(q))

\* Mutant: the arguments are popped one by one, the last written first.
pullArgsPopped(stack, count) ==
  IF count = undefined THEN [args |-> <<>>, stack |-> stack]
  ELSE [args |-> Reversed(SubSeq(stack, Len(stack) - count + 1, Len(stack))),
        stack |-> SubSeq(stack, 1, Len(stack) - count)]

\* pullArgs: the top count entries in stack order, and the stack without them.
pullArgs(stack, count) ==
  IF count = undefined THEN [args |-> <<>>, stack |-> stack]
  ELSE [args |-> SubSeq(stack, Len(stack) - count + 1, Len(stack)),
        stack |-> SubSeq(stack, 1, Len(stack) - count)]

toRadians(mode, value) ==
  IF mode = "DEG" THEN Div(Mul(value, PI), Num(180)) ELSE value

\* (value * 180) / Math.PI; of a symbolic value that is no multiple of pi it
\* is a new symbolic constant.
fromRadians(mode, value) ==
  IF mode # "DEG" THEN value
  ELSE IF value.k = "sym" /\ value.f # "pi"
    THEN Scaled(value.s, value.n, value.d, "deg(" \o value.f \o ")")
  ELSE Div(Mul(value, Num(180)), PI)

\* Mutant: only the upper border is checked.
AboveUnitRange(value) == NumLt(Num(1), value)

\* value < -1 - epsilon || value > 1 + epsilon.  No value of the window lies
\* within epsilon = 1e-12 of 1 or -1 without being equal to it.
OutsideUnitRange(value) == NumLt(value, Num(-1)) \/ NumLt(Num(1), value)

clampUnitRange(value) == Min2(Num(1), Max2(Num(-1), value))

\* Mutant: more arguments than expected are let through.
ensureArityAtLeast(name, actual, expected) ==
  IF actual # undefined /\ actual >= expected THEN ""
  ELSE name \o ": expects 1 argument"

\* ensureArity: the message it throws, "" if it returns.
ensureArity(name, actual, expected) ==
  IF actual # expected THEN name \o ": expects 1 argument" ELSE ""

\* The value a function pushes, given its arguments: [err: the message it
\* throws, "" if none; value].
FunctionValue(name, argCount, args, mode) ==
  LET arity == ensureArity(name, argCount, 1)
      ok(v) == [err |-> "", value |-> v]
      fail(m) == [err |-> m, value |-> NaN]
      x == ToNumber(args[1])
      xs == [j \in DOMAIN args |-> ToNumber(args[j])]
  IN IF name \in FUNCTIONS \ {"min", "max"} /\ arity # "" THEN fail(arity)
     ELSE CASE name = "sin" -> ok(MathSin(toRadians(mode, x)))
            [] name = "cos" -> ok(MathCos(toRadians(mode, x)))
            [] name = "tan" -> ok(MathTan(toRadians(mode, x)))
            [] name \in {"asin", "acos"} ->
                 IF ~Known(x, Num(1)) \/ ~Known(x, Num(-1)) THEN ok(Oow)
                 ELSE IF OutsideUnitRange(x)
                   THEN fail(name \o ": argument must be in -1..1")
                 ELSE IF name = "asin"
                   THEN ok(fromRadians(mode, MathAsin(clampUnitRange(x))))
                 ELSE ok(fromRadians(mode, MathAcos(clampUnitRange(x))))
            [] name = "atan" -> ok(fromRadians(mode, MathAtan(x)))
            [] name \in {"log", "ln"} ->
                 IF ~Known(x, Num(0)) THEN ok(Oow)
                 ELSE IF NumLt(x, Num(0)) \/ NumEq(x, Num(0))
                   THEN fail(name \o ": argument must be positive")
                 ELSE IF name = "log" THEN ok(Log10(x)) ELSE ok(MathLog(x))
            [] name = "sqrt" ->
                 IF ~Known(x, Num(0)) THEN ok(Oow)
                 ELSE IF NumLt(x, Num(0)) THEN fail("sqrt: negative argument")
                 ELSE ok(MathSqrt(x))
            [] name = "abs" -> ok(MathAbs(x))
            [] name = "exp" -> ok(MathExp(x))
            [] name = "min" ->
                 IF argCount # undefined /\ argCount < 1 THEN fail("min: missing arguments")
                 ELSE ok(MathMin(xs))
            [] name = "max" ->
                 IF argCount # undefined /\ argCount < 1 THEN fail("max: missing arguments")
                 ELSE ok(MathMax(xs))
            [] OTHER -> fail("unknown function: " \o name)

\* Mutant: the result of every other function is converted from radians too.
applyFunctionAsAngle(c, token) ==
  LET count == token.argCount
      pulled == pullArgs(c.estack, count)
      r == FunctionValue(token.str, count, pulled.args, c.context.mode)
  IN IF count # undefined /\ Len(c.estack) < count
       THEN Throw(c, "missing function argument")
     ELSE IF r.err # "" THEN Throw([c EXCEPT !.estack = pulled.stack], r.err)
     ELSE PushValue(c, pulled.stack,
                    IF token.str \in {"asin", "acos", "atan"} THEN r.value
                    ELSE fromRadians(c.context.mode, r.value))

applyFunction(c, token) ==
  LET count == token.argCount
      pulled == pullArgs(c.estack, count)
      r == FunctionValue(token.str, count, pulled.args, c.context.mode)
  IN IF count # undefined /\ Len(c.estack) < count
       THEN Throw(c, "missing function argument")
     ELSE IF r.err # "" THEN Throw([c EXCEPT !.estack = pulled.stack], r.err)
     ELSE PushValue(c, pulled.stack, r.value)

\* The end of evalRpn: the value it returns to evaluate.
EvalRpnEnd(c) ==
  IF Len(c.estack) # 1 THEN Throw(c, "evaluation failed")
  ELSE [c EXCEPT !.pc = "return", !.value = c.estack[1]]

\* One iteration of evalRpn's loop over the RPN tokens, or its end.
EvalRpnStep(c) ==
  LET token == c.output[c.k]
  IN IF c.k > Len(c.output) THEN EvalRpnEnd(c)
     ELSE IF token.type = "number" THEN PushValue(c, c.estack, token.num)
     ELSE IF token.type = "variable"
       THEN IF token.str = "ans"
            THEN IF ~c.context.hasAns THEN Throw(c, "ANS undefined")
                 ELSE PushValue(c, c.estack, c.context.ans)
            ELSE Throw(c, "unknown variable: " \o token.str)
     ELSE IF token.type = "operator" THEN applyOperator(c, token.str)
     ELSE IF token.type = "function" THEN applyFunction(c, token)
     ELSE [c EXCEPT !.k = @ + 1]

\* ------------------------------------------------------------------ evaluate
\* Mutant: the token array outlives the call (it is never emptied).
NewCallKeepTokens(old, expression, context) ==
  [IdleCall EXCEPT !.pc = "tokenize", !.expression = expression,
                   !.context = context, !.stages = <<"tokenize">>,
                   !.tokens = old.tokens]

\* evaluate's entry: the call of tokenize on the expression, with a new
\* token array and scan position, whatever the call before (old) has left.
NewCall(old, expression, context) ==
  [IdleCall EXCEPT !.pc = "tokenize", !.expression = expression,
                   !.context = context, !.stages = <<"tokenize">>]

\* Mutant: the value is returned without the finiteness check.
ReturnUnchecked(c) ==
  [c EXCEPT !.pc = "done", !.result = [ok |-> TRUE, value |-> c.value]]

\* evaluate, after evalRpn has returned value.
ReturnStep(c) ==
  IF ~IsFiniteNumber(c.value)
  THEN [c EXCEPT !.pc = "done", !.result = [ok |-> FALSE, error |-> "calculation error"]]
  ELSE [c EXCEPT !.pc = "done", !.result = [ok |-> TRUE, value |-> c.value]]

\* Mutant: the failure carries the value computed so far.
CatchWithValue(c) ==
  [c EXCEPT !.pc = "done",
            !.result = [ok |-> FALSE, error |-> c.thrown, value |-> c.value]]

\* evaluate's catch block: every throw of the stages is an Error.
CatchStep(c) ==
  [c EXCEPT !.pc = "done", !.result = [ok |-> FALSE, error |-> c.thrown]]

\* ------------------------------------------------------------------ inputs
\* The texts of length n built from: the digits ds as operands, a binary
\* operator of ops between two texts, parentheses around a text, and (if
\* neg) a leading unary minus.
\* Texts of length exactly n, given the texts of every smaller length in W.
TextsOfLen(n, W, ds, ops, neg) ==
  (IF n = 1 THEN {<<d>> : d \in ds} ELSE {})
  \cup UNION {{a \o <<op>> \o b : a \in W[j], b \in W[n - 1 - j], op \in ops}
              : j \in 1..(n - 2)}
  \cup (IF n >= 3 THEN {<<"(">> \o a \o <<")">> : a \in W[n - 2]} ELSE {})
  \cup (IF neg /\ n >= 2 THEN {<<"-">> \o a : a \in W[n - 1]} ELSE {})

RECURSIVE Grammar(_, _, _, _, _)
Grammar(W, max, ds, ops, neg) ==
  IF Len(W) >= max THEN W
  ELSE Grammar(Append(W, TextsOfLen(Len(W) + 1, W, ds, ops, neg)), max, ds, ops, neg)

AllOf(W) == UNION {W[j] : j \in DOMAIN W}

InfixTexts == AllOf(Grammar(<<>>, MaxInfixLen, {"2", "3"}, {"+", "-", "*", "/"}, FALSE))

PowTexts ==
  AllOf(Grammar(<<>>, MaxPowLen, {"0", "2", "3"}, {"+", "-", "*", "/", "^"}, TRUE))

\* Longer texts whose value is NaN or -Infinity.
EdgeTexts ==
  {<<"0", "^", "-", "2", "*", "0">>,
   <<"0", "^", "-", "2", "-", "0", "^", "-", "2">>,
   <<"(", "-", "0", ")", "^", "-", "3">>,
   <<"2", "/", "(", "0", "*", "-", "2", ")">>}

ArithTexts == InfixTexts \cup PowTexts \cup EdgeTexts

\* The texts made of at most max lexemes of L, one after the other.
RECURSIVE Flatten(_)
Flatten(q) == IF q = <<>> THEN <<>> ELSE Head(q) \o Flatten(Tail(q))

LexemeTexts(L, max) == {Flatten(q) : q \in UNION {[1..m -> L] : m \in 0..max}}

\* Texts with a character of every class the scanning loop knows: blanks, a
\* literal, identifiers, the glyphs, a comma, parentheses and operators.
MixedTexts ==
  {<<" ", "1", ".", "5", " ", "TIMES", "\t", "PI">>,
   <<"m", "i", "n", "(", "1", ",", " ", "a", "n", "s", ")", "DIVIDE", "2">>,
   <<"1", "e", "1", " ", "$", "1">>,
   <<"(", "PI", ")", "^", "0", " ">>,
   <<"2", " ", "x", "+", "1">>}

RawTexts ==
  LexemeTexts({<<"1">>, <<"0">>, <<"+">>, <<"/">>, <<"(">>, <<")">>, <<" ">>, <<"$">>},
              MaxRawLen)
  \cup MixedTexts

AnsTexts ==
  LexemeTexts({<<"a", "n", "s">>, <<"A", "n", "S">>, <<"1">>, <<"+">>, <<"*">>,
               <<"(">>, <<")">>},
              MaxAnsLen)

\* The lexeme sequences left when at most n lexemes of q are left out.
RECURSIVE DropUpTo(_, _)
DropUpTo(q, n) ==
  IF q = <<>> THEN {<<>>}
  ELSE {<<Head(q)>> \o r : r \in DropUpTo(Tail(q), n)}
       \cup (IF n > 0 THEN DropUpTo(Tail(q), n - 1) ELSE {})

Lmin == <<"m", "i", "n">>

Lmax == <<"m", "a", "x">>

\* min(max(3,1),2,0), min(2+2,2) and (2+min(3))*2, lexeme by lexeme.
SynSeeds ==
  {<<Lmin, <<"(">>, Lmax, <<"(">>, <<"3">>, <<",">>, <<"1">>, <<")">>, <<",">>,
     <<"2">>, <<",">>, <<"0">>, <<")">>>>,
   <<Lmin, <<"(">>, <<"2">>, <<"+">>, <<"2">>, <<",">>, <<"2">>, <<")">>>>,
   <<<<"(">>, <<"2">>, <<"+">>, Lmin, <<"(">>, <<"3">>, <<")">>, <<")">>, <<"*">>,
     <<"2">>>>}

\* name(a), name(a,b) and name(a,b,c) for min and max over the digits 1..3.
MinMaxTexts ==
  LET ds == {"1", "2", "3"}
  IN UNION {{name \o <<"(", a, ")">> : a \in ds}
            \cup {name \o <<"(", a, ",", b, ")">> : a \in ds, b \in ds}
            \cup {name \o <<"(", a, ",", b, ",", c, ")">> : a \in ds, b \in ds, c \in ds}
            : name \in {Lmin, Lmax}}

\* min(2,op 2) for each operator, lexeme by lexeme.
OpSeeds ==
  {<<Lmin, <<"(">>, <<"2">>, <<",">>, <<op>>, <<"2">>, <<")">>>> :
     op \in {"+", "-", "*", "/", "^"}}

\* The operator texts: each operator after the start, a value, an operator,
\* a '(' and a function name.
OpTexts ==
  LexemeTexts({<<"2">>, <<"-">>, <<"*">>, <<"/">>, <<"^">>, <<"(">>, Lmin}, MaxOpLen)

\* The syntax universe: every text of at most MaxSynLen lexemes, the seed
\* texts with at most MaxDrop lexemes left out, the min/max calls and the
\* operator texts.
SynTexts ==
  LexemeTexts({<<"2">>, <<"+">>, <<"(">>, <<")">>, <<",">>, Lmin}, MaxSynLen)
  \cup {Flatten(q) : q \in UNION {DropUpTo(seed, MaxDrop) : seed \in SynSeeds \cup OpSeeds}}
  \cup MinMaxTexts
  \cup OpTexts

\* The function universe: name(arg) for the functions with a domain check
\* (and atan, abs) and arguments on both sides of each domain's border.
FunArgs ==
  {<<"0">>, <<"1">>, <<"2">>, <<"-", "0">>, <<"-", "1">>, <<"-", "2">>,
   <<"0", ".", "5">>, <<"-", "0", ".", "5">>, <<"1", ".", "5">>, <<"-", "1", ".", "5">>,
   <<"2", "-", "3">>, <<"1", "/", "0">>, <<"0", "^", "-", "1">>,
   <<"-", "0", "^", "-", "1">>, <<"0", "^", "-", "1", "-", "0", "^", "-", "1">>,
   <<"e">>, <<"a", "n", "s">>}

FunNames ==
  {<<"s", "q", "r", "t">>, <<"l", "o", "g">>, <<"l", "n">>, <<"a", "s", "i", "n">>,
   <<"a", "c", "o", "s">>, <<"a", "t", "a", "n">>, <<"a", "b", "s">>}

\* The names of FUNCTIONS, letter by letter.
AllFunNames ==
  FunNames \cup {<<"s", "i", "n">>, <<"c", "o", "s">>, <<"t", "a", "n">>,
                <<"e", "x", "p">>, Lmin, Lmax}

\* name(a), name(a,b) and name(a,b,c) for every function and the digits 0
\* and 1, alone, after 2+, and with or as the argument of another call.
ArityCalls ==
  LET ds == {"0", "1"}
  IN UNION {{name \o <<"(", a, ")">> : a \in ds}
            \cup {name \o <<"(", a, ",", b, ")">> : a \in ds, b \in ds}
            \cup {name \o <<"(", a, ",", b, ",", c, ")">> : a \in ds, b \in ds, c \in {"1"}}
            : name \in AllFunNames}

ArityTexts ==
  ArityCalls
  \cup {<<"2", "+">> \o call : call \in ArityCalls}
  \cup {Lmin \o <<"(">> \o call \o <<",", "1", ")">> : call \in ArityCalls}
  \cup {<<"a", "b", "s", "(">> \o call \o <<")">> : call \in ArityCalls}

FunTexts ==
  {name \o <<"(">> \o arg \o <<")">> : name \in FunNames, arg \in FunArgs}
  \cup ArityTexts

\* The literal universe.
LitTexts ==
  LexemeTexts({<<"1">>, <<"e">>, <<"9">>, <<"-">>, <<".">>}, MaxLitLen)
  \cup {<<"1", "/", "1", "e", "9", "9", "9">>}
  \cup {<<"1", e, "+", "1">> : e \in {"e", "E"}}
  \cup {<<"1", e, "+">> : e \in {"e", "E"}}
  \cup {<<"1", ".", "9", "E", "1">>, <<".", "E", "1">>, <<"1", "E">>}

\* The identifier universe: short letter runs, the names the tokenizer
\* knows, and a key CONSTANTS inherits.
IdentWords ==
  {<<"s", "i", "n">>, <<"c", "o", "s">>, <<"t", "a", "n">>, <<"a", "s", "i", "n">>,
   <<"a", "c", "o", "s">>, <<"a", "t", "a", "n">>, <<"l", "o", "g">>, <<"l", "n">>,
   <<"s", "q", "r", "t">>, <<"a", "b", "s">>, <<"e", "x", "p">>, Lmin, Lmax,
   <<"p", "i">>, <<"P", "I">>, <<"a", "n", "s">>,
   <<"c", "o", "n", "s", "t", "r", "u", "c", "t", "o", "r">>,
   <<"C", "o", "n", "s", "t", "r", "u", "c", "t", "o", "r">>,
   <<"c", "o", "n", "s", "t", "r", "u", "c", "t", "o", "r", "^", "0">>}

IdentTexts ==
  LexemeTexts({<<"s">>, <<"i">>, <<"n">>, <<"e">>, <<"P">>, <<"a">>}, MaxIdentLen)
  \cup IdentWords

\* The inputs of SpecCalls.
CallsTexts ==
  {<<"2", "-", "3">>, <<"2", "/", "0">>, <<"(", "2">>, <<"a", "n", "s", "*", "2">>}

Context(mode, hasAns, ans) == [mode |-> mode, hasAns |-> hasAns, ans |-> ans]

\* The expression texts and the contexts of each universe of inputs.
TextsOf(u) ==
  CASE u = "arith" -> ArithTexts
    [] u = "raw" -> RawTexts
    [] u = "ans" -> AnsTexts
    [] u = "calls" -> CallsTexts
    [] u = "syn" -> SynTexts
    [] u = "fun" -> FunTexts
    [] u = "lit" -> LitTexts
    [] u = "ident" -> IdentTexts

NoAns(mode) == Context(mode, FALSE, Num(0))

WithAns(mode, ans) == Context(mode, TRUE, ans)

ContextsOf(u) ==
  CASE u = "arith" -> {NoAns("DEG"), WithAns("RAD", Num(7))}
    [] u = "raw" -> {NoAns("DEG"), WithAns("RAD", Num(7))}
    [] u = "ans" -> {NoAns("DEG"), WithAns("DEG", Num(7)), WithAns("RAD", Fin(1, 1, 2))}
    [] u = "calls" -> {NoAns("DEG"), WithAns("DEG", Num(7))}
    [] u = "syn" -> {NoAns("DEG")}
    [] u = "fun" -> {NoAns("DEG"), NoAns("RAD"), WithAns("DEG", Num(4)),
                     WithAns("RAD", Num(4))}
    [] u = "lit" -> {NoAns("DEG")}
    [] u = "ident" -> {NoAns("DEG"), WithAns("RAD", Num(7))}

\* ------------------------------------------------------------------ system
\* The state of the page when the script has run: nothing typed, the result
\* line "0", degrees, ans 0.
InitialState ==
  [expression |-> <<>>, result |-> <<"0">>, mode |-> "DEG", ans |-> Num(0),
   error |-> "", justEvaluated |-> FALSE]

VARIABLES
  calls,     \* per call of evaluate: its control state
  heap,      \* per frame: the arrays of the call that owns the frame
  universe,  \* the universe the inputs are drawn from
  budget,    \* calls of evaluate (presses of the = key) still to be made
  hist,      \* the finished calls: [expression, context, result]
  state      \* the state object of the calculator page (main.ts)

vars == <<calls, heap, universe, budget, hist, state>>

Procs == {1, 2}

CtlFields == {"pc", "expression", "context", "stages", "i", "t", "k", "lastType",
              "value", "thrown", "result"}

LocFields == {"tokens", "output", "stack", "argStack", "estack"}

Ctl(c) == [f \in CtlFields |-> c[f]]

Loc(c) == [f \in LocFields |-> c[f]]

\* Mutant: one set of arrays, shared by all calls.
FrameShared(p) == 1

\* The frame that holds the arrays of call p: every call allocates its own.
FrameOf(p) == p

\* Call p as one record: its control state and the arrays of its frame.
Load(p) == calls[p] @@ heap[FrameOf(p)]

\* The step the call takes next.
StepOf(c) ==
  CASE c.pc = "tokenize" -> TokenizeStep(c)
    [] c.pc = "toRpn" -> ToRpnStep(c)
    [] c.pc = "evalRpn" -> EvalRpnStep(c)
    [] c.pc = "return" -> ReturnStep(c)
    [] c.pc = "catch" -> CatchStep(c)
    [] OTHER -> c

\* Call p moves to c: its control state and its arrays are stored, and a
\* call that has returned is recorded.
Store(p, c) ==
  /\ c.pc # "beyond"
  /\ calls' = [calls EXCEPT ![p] = Ctl(c)]
  /\ heap' = [heap EXCEPT ![FrameOf(p)] = Loc(c)]
  /\ hist' = IF c.pc = "done"
             THEN hist \cup {[expression |-> c.expression, context |-> c.context,
                              result |-> c.result]}
             ELSE hist
  /\ UNCHANGED <<universe, state>>

InitIn(u, n) ==
  /\ calls = [p \in Procs |-> Ctl(IdleCall)]
  /\ heap = [p \in Procs |-> Loc(IdleCall)]
  /\ universe = u
  /\ budget = n
  /\ hist = {}
  /\ state = InitialState

Init == InitIn("arith", 1)

\* evaluate(expression, context) is called; calls are numbered in the order
\* of their first use.
Call(p) ==
  /\ calls[p].pc \in {"idle", "done"}
  /\ budget > 0
  /\ p = 1 \/ calls[1].pc # "idle"
  /\ \E expression \in TextsOf(universe), context \in ContextsOf(universe) :
       Store(p, NewCall(Load(p), expression, context))
  /\ budget' = budget - 1

Tokenize(p) ==
  /\ calls[p].pc = "tokenize"
  /\ Store(p, TokenizeStep(Load(p)))
  /\ UNCHANGED budget

ToRpn(p) ==
  /\ calls[p].pc = "toRpn"
  /\ Store(p, ToRpnStep(Load(p)))
  /\ UNCHANGED budget

EvalRpn(p) ==
  /\ calls[p].pc = "evalRpn"
  /\ Store(p, EvalRpnStep(Load(p)))
  /\ UNCHANGED budget

Return(p) ==
  /\ calls[p].pc = "return"
  /\ Store(p, ReturnStep(Load(p)))
  /\ UNCHANGED budget

Catch(p) ==
  /\ calls[p].pc = "catch"
  /\ Store(p, CatchStep(Load(p)))
  /\ UNCHANGED budget

Next ==
  \E p \in Procs :
    Call(p) \/ Tokenize(p) \/ ToRpn(p) \/ EvalRpn(p) \/ Return(p) \/ Catch(p)

Spec == Init /\ [][Next]_vars

\* One call on a text of the raw universe, of the ans universe.
InitRaw == InitIn("raw", 1)

SpecRaw == InitRaw /\ [][Next]_vars

InitAns == InitIn("ans", 1)

SpecAns == InitAns /\ [][Next]_vars

\* MaxCalls calls, by two callers whose steps interleave.
InitCalls == InitIn("calls", MaxCalls)

SpecCalls == InitCalls /\ [][Next]_vars

\* One call on a text of the syntax universe, of the function universe, of
\* the literal universe, of the identifier universe.
InitSyn == InitIn("syn", 1)

SpecSyn == InitSyn /\ [][Next]_vars

InitFun == InitIn("fun", 1)

SpecFun == InitFun /\ [][Next]_vars

InitLit == InitIn("lit", 1)

SpecLit == InitLit /\ [][Next]_vars

InitIdent == InitIn("ident", 1)

SpecIdent == InitIdent /\ [][Next]_vars

\* ------------------------------------------------------------------ one call alone
\* The call c run to its end with no other call in between.
RECURSIVE RunAlone(_)
RunAlone(c) == IF c.pc \in {"idle", "done", "beyond"} THEN c ELSE RunAlone(StepOf(c))

\* evaluate(expression, context) as a function of its arguments.
Evaluate(expression, context) == RunAlone(NewCall(IdleCall, expression, context))

\* ------------------------------------------------------------------ the page
\* String.prototype.trimEnd and trim.
RECURSIVE trimEnd(_)
trimEnd(text) ==
  IF text # <<>> /\ isWhitespace(text[Len(text)])
  THEN trimEnd(SubSeq(text, 1, Len(text) - 1))
  ELSE text

RECURSIVE trimStart(_)
trimStart(text) ==
  IF text # <<>> /\ isWhitespace(text[1]) THEN trimStart(Tail(text)) ELSE text

trim(text) == trimStart(trimEnd(text))

\* The decimal digits of a natural number.
RECURSIVE DecimalText(_)
DecimalText(n) ==
  IF n < 10 THEN <<Digits[n + 1]>>
  ELSE DecimalText(n \div 10) \o <<Digits[(n % 10) + 1]>>

\* The values formatNumber is modelled on: the non-finite ones and the
\* integers (every integer of the window is below 1e12).
Formattable(value) == ~IsFiniteNumber(value) \/ (value.k = "fin" /\ value.d = 1)

\* formatNumber(value): "Error" for a non-finite value, "0" for both zeros,
\* and for another integer below 1e12 its toPrecision(12) text with the
\* zeros after the point (and the point) trimmed: its decimal digits.
formatNumber(value) ==
  IF ~IsFiniteNumber(value) THEN <<"E", "r", "r", "o", "r">>
  ELSE IF value.n = 0 THEN <<"0">>
  ELSE (IF value.s = 1 THEN <<"-">> ELSE <<>>) \o DecimalText(value.n)

\* The keys of the page that the model presses: [input, type].
Key(input, type) == [input |-> input, type |-> type]

UiKeys ==
  {Key(<<"2">>, "digit"), Key(<<"-">>, "operator")}

\* /[\d.)πa-z]$/i on the last character.
isValueEnd(ch) == isDigit(ch) \/ isAlpha(ch) \/ ch \in {".", ")", "π"}

endsWithValue(expr) ==
  LET trimmed == trimEnd(expr)
  IN trimmed # <<>> /\ isValueEnd(trimmed[Len(trimmed)])

shouldAddImplicitMultiply(st, input, type) ==
  IF ~endsWithValue(st.expression) THEN FALSE
  ELSE IF type \in {"function", "constant", "ans"} THEN TRUE
  ELSE type = "paren" /\ input = <<"(">>

\* handleInput(input, type): the state it leaves.
handleInput(st, input, type) ==
  LET cleared == [st EXCEPT !.error = ""]
  IN IF st.justEvaluated
     THEN [cleared EXCEPT
             !.expression = IF type = "operator" THEN <<"a", "n", "s">> \o input
                            ELSE IF type = "function"
                                 THEN input \o <<"a", "n", "s", ")">>
                                 ELSE input,
             !.justEvaluated = FALSE]
     ELSE [cleared EXCEPT
             !.expression = IF shouldAddImplicitMultiply(st, input, type)
                            THEN @ \o <<"*">> \o input
                            ELSE @ \o input]

\* Mutant: the clear key resets the prior result too.
clearAllAndAns(st) ==
  [st EXCEPT !.expression = <<>>, !.result = <<"0">>, !.error = "",
             !.justEvaluated = FALSE, !.ans = Num(0)]

clearAll(st) ==
  [st EXCEPT !.expression = <<>>, !.result = <<"0">>, !.error = "",
             !.justEvaluated = FALSE]

backspace(st) ==
  IF st.justEvaluated
  THEN [st EXCEPT !.expression = <<>>, !.justEvaluated = FALSE, !.error = ""]
  ELSE [st EXCEPT !.expression = IF @ = <<>> THEN @ ELSE SubSeq(@, 1, Len(@) - 1),
                  !.error = ""]

\* The text matches \d*\.?\d+ : digits with at most one dot, the last
\* character a digit.
IsUnsignedMantissa(q) ==
  /\ q # <<>> /\ isDigit(q[Len(q)])
  /\ \A j \in DOMAIN q : isDigit(q[j]) \/ q[j] = "."
  /\ Cardinality({j \in DOMAIN q : q[j] = "."}) <= 1

\* The text matches e[+-]?\d+ (in either case).
IsExponentSuffix(q) ==
  /\ Len(q) >= 2 /\ q[1] \in {"e", "E"}
  /\ LET from == IF q[2] \in {"+", "-"} THEN 3 ELSE 2
     IN from <= Len(q) /\ \A j \in from..Len(q) : isDigit(q[j])

\* The text matches -?\d*\.?\d+(?:e[+-]?\d+)? as a whole.
IsSignedNumber(q) ==
  \E m \in 1..Len(q) :
    /\ m = Len(q) \/ IsExponentSuffix(SubSeq(q, m + 1, Len(q)))
    /\ \/ IsUnsignedMantissa(SubSeq(q, 1, m))
       \/ q[1] = "-" /\ IsUnsignedMantissa(SubSeq(q, 2, m))

\* expr.match(/-?\d*\.?\d+(?:e[+-]?\d+)?$/i): the index where the leftmost
\* match starts, 0 if there is none.
NumberTailStart(expr) ==
  LET starts == {j \in DOMAIN expr : IsSignedNumber(SubSeq(expr, j, Len(expr)))}
  IN IF starts = {} THEN 0 ELSE CHOOSE j \in starts : \A m \in starts : j <= m

toggleSign(st) ==
  LET expr == IF st.justEvaluated THEN st.result ELSE st.expression
      start == NumberTailStart(expr)
      number == SubSeq(expr, start, Len(expr))
      before == SubSeq(expr, 1, start - 1)
      hasUnaryMinus ==
        /\ number[1] = "-"
        /\ before = <<>> \/ before[Len(before)] \in {"+", "-", "*", "/", "^", "(", ","}
  IN [st EXCEPT
        !.error = "", !.justEvaluated = FALSE,
        !.expression = IF expr = <<>> THEN <<"-">>
                       ELSE IF start = 0 THEN expr \o <<"-">>
                       ELSE IF hasUnaryMinus THEN before \o Tail(number)
                       ELSE before \o <<"-">> \o number]

RECURSIVE countOpenParentheses(_)
countOpenParentheses(expr) ==
  IF expr = <<>> THEN 0
  ELSE LET balance == countOpenParentheses(SubSeq(expr, 1, Len(expr) - 1))
           ch == expr[Len(expr)]
       IN IF ch = "(" THEN balance + 1
          ELSE IF ch = ")" /\ balance > 0 THEN balance - 1
          ELSE balance

insertSmartParenthesis(st) ==
  LET expr == IF st.justEvaluated THEN <<>> ELSE st.expression
      trimmed == trimEnd(expr)
      endsValue == trimmed # <<>> /\ isValueEnd(trimmed[Len(trimmed)])
      canClose == countOpenParentheses(trimmed) > 0 /\ endsValue
  IN [st EXCEPT
        !.error = "", !.justEvaluated = FALSE,
        !.expression = IF canClose THEN expr \o <<")">>
                       ELSE IF endsValue THEN expr \o <<"*", "(">>
                       ELSE expr \o <<"(">>]

toggleAngleMode(st) ==
  [st EXCEPT !.mode = IF @ = "DEG" THEN "RAD" ELSE "DEG"]

\* The call evaluate(state.expression, {mode: state.mode, ans: state.ans}),
\* run to its end.
EngineCall(st) == Evaluate(st.expression, Context(st.mode, TRUE, st.ans))

\* What evaluateExpression does with c, the call of evaluate it has made,
\* run to its end: the state it leaves and the call.
Evaluated(st, c) ==
  [state |-> IF c.result.ok
             THEN [st EXCEPT !.result = formatNumber(c.result.value),
                             !.ans = c.result.value, !.error = "",
                             !.justEvaluated = TRUE]
             ELSE [st EXCEPT !.error = c.result.error, !.justEvaluated = FALSE],
   called |-> {[expression |-> c.expression, context |-> c.context,
                result |-> c.result]}]

\* Mutant: the engine is called on a blank expression too.
evaluateExpressionAlways(st, c) == Evaluated(st, c)

\* evaluateExpression(): the state it leaves and the calls of evaluate it
\* makes; on a blank expression it returns at once and c is not made.
evaluateExpression(st, c) ==
  IF trim(st.expression) = <<>> THEN [state |-> st, called |-> {}]
  ELSE Evaluated(st, c)

\* The = key can be modelled: the engine's call and the value to format lie
\* in the window.
InWindow(st, c) ==
  trim(st.expression) # <<>> =>
    /\ c.pc = "done"
    /\ c.result.ok => Formattable(c.result.value)

UiFrame == UNCHANGED <<calls, heap, universe>>

HandleInput ==
  /\ state.justEvaluated \/ Len(state.expression) < MaxUiLen
  /\ \E key \in UiKeys : state' = handleInput(state, key.input, key.type)
  /\ UNCHANGED <<budget, hist>>
  /\ UiFrame

ClearAll ==
  /\ state' = clearAll(state)
  /\ UNCHANGED <<budget, hist>>
  /\ UiFrame

Backspace ==
  /\ state' = backspace(state)
  /\ UNCHANGED <<budget, hist>>
  /\ UiFrame

ToggleAngleMode ==
  /\ state' = toggleAngleMode(state)
  /\ UNCHANGED <<budget, hist>>
  /\ UiFrame

ToggleSign ==
  /\ state.justEvaluated \/ Len(state.expression) < MaxUiLen
  /\ state' = toggleSign(state)
  /\ UNCHANGED <<budget, hist>>
  /\ UiFrame

InsertSmartParenthesis ==
  /\ state.justEvaluated \/ Len(state.expression) < MaxUiLen
  /\ state' = insertSmartParenthesis(state)
  /\ UNCHANGED <<budget, hist>>
  /\ UiFrame

\* The = key (or Enter) is pressed.
EvaluateExpression ==
  /\ budget > 0
  /\ \E c \in {EngineCall(state)} :
       /\ InWindow(state, c)
       /\ state' = evaluateExpression(state, c).state
       /\ hist' = hist \cup evaluateExpression(state, c).called
  /\ budget' = budget - 1
  /\ UiFrame

NextUi ==
  \/ HandleInput \/ ClearAll \/ Backspace \/ ToggleAngleMode \/ ToggleSign
  \/ InsertSmartParenthesis \/ EvaluateExpression

InitUi == InitIn("ui", MaxEvals)

SpecUi == InitUi /\ [][NextUi]_vars

\* ------------------------------------------------------------------ reference
\* A reference evaluator by recursive descent, for texts of digits, + - * /
\* and parentheses:
\*   Expr := Term { (+|-) Term }     Term := Factor { (*|/) Factor }
\*   Factor := digits | ( Expr )
\* Each function returns [parsed, defined, val, pos]: parsed, the text from
\* the start position matches; defined, no divisor was zero; val, the value;
\* pos, the position after the match.
RefFail == [parsed |-> FALSE, defined |-> FALSE, val |-> NaN, pos |-> 0]

RECURSIVE RefLiteral(_, _, _)
RefLiteral(text, pos, acc) ==
  IF pos <= Len(text) /\ isDigit(text[pos])
  THEN RefLiteral(text, pos + 1, Add(Mul(acc, Num(10)), Num(DigitValue(text[pos]))))
  ELSE [parsed |-> TRUE, defined |-> TRUE, val |-> acc, pos |-> pos]

RECURSIVE RefExpr(_, _), RefExprTail(_, _), RefTerm(_, _), RefTermTail(_, _),
          RefFactor(_, _)

RefFactor(text, pos) ==
  IF pos > Len(text) THEN RefFail
  ELSE IF isDigit(text[pos]) THEN RefLiteral(text, pos, Num(0))
  ELSE IF text[pos] = "("
    THEN LET e == RefExpr(text, pos + 1)
         IN IF e.parsed /\ e.pos <= Len(text) /\ text[e.pos] = ")"
            THEN [e EXCEPT !.pos = @ + 1] ELSE RefFail
  ELSE RefFail

\* left is the value of the factors read so far.
RefTermTail(text, left) ==
  IF left.pos <= Len(text) /\ text[left.pos] \in {"*", "/"}
  THEN LET right == RefFactor(text, left.pos + 1)
       IN IF ~right.parsed THEN RefFail
          ELSE RefTermTail(text,
                 [parsed |-> TRUE,
                  defined |-> left.defined /\ right.defined
                              /\ ~(text[left.pos] = "/" /\ IsZero(right.val)),
                  val |-> IF text[left.pos] = "*" THEN Mul(left.val, right.val)
                          ELSE Div(left.val, right.val),
                  pos |-> right.pos])
  ELSE left

RefTerm(text, pos) ==
  LET f == RefFactor(text, pos) IN IF f.parsed THEN RefTermTail(text, f) ELSE RefFail

\* left is the value of the terms read so far.
RefExprTail(text, left) ==
  IF left.pos <= Len(text) /\ text[left.pos] \in {"+", "-"}
  THEN LET right == RefTerm(text, left.pos + 1)
       IN IF ~right.parsed THEN RefFail
          ELSE RefExprTail(text,
                 [parsed |-> TRUE,
                  defined |-> left.defined /\ right.defined,
                  val |-> IF text[left.pos] = "+" THEN Add(left.val, right.val)
                          ELSE Sub(left.val, right.val),
                  pos |-> right.pos])
  ELSE left

RefExpr(text, pos) ==
  LET t == RefTerm(text, pos) IN IF t.parsed THEN RefExprTail(text, t) ELSE RefFail

\* The whole text is a well-formed infix expression with no zero divisor.
Reference(text) ==
  LET e == RefExpr(text, 1)
  IN [e EXCEPT !.parsed = e.parsed /\ e.pos = Len(text) + 1]

\* The result evaluate gives for a value the evaluator has returned.
ResultFor(v) ==
  IF IsFiniteNumber(v) THEN [ok |-> TRUE, value |-> v]
  ELSE [ok |-> FALSE, error |-> "calculation error"]

Returned(p) == calls[p].pc = "done"

\* ------------------------------------------------------------------ claims
\* C1: for every well-formed infix expression of number literals, binary
\* + - * / and parentheses with no zero divisor, evaluate returns ok with the
\* value of the reference evaluator (standard precedence, groups as units,
\* left operand op right operand).
C1_InfixValue ==
  \A p \in Procs :
    Returned(p) =>
      LET ref == Reference(calls[p].expression)
      IN (ref.parsed /\ ref.defined /\ ref.val.k # "oow") =>
           calls[p].result = [ok |-> TRUE, value |-> ref.val]

\* (2-3)/2 is -1/2: the group is a unit (2-3/2 is 1/2) and the quotient is
\* left by right.
C1_Witness ==
  \E p \in Procs :
    /\ Returned(p)
    /\ calls[p].expression = <<"(", "2", "-", "3", ")", "/", "2">>
    /\ Reference(calls[p].expression).parsed
    /\ calls[p].result = [ok |-> TRUE, value |-> Fin(1, 1, 2)]

\* The value of left op right in the evaluator, as [err, val]: err is the
\* failure an earlier operand has raised or this operation raises.
RefApply(op, left, right) ==
  IF left.err # "" THEN left
  ELSE IF right.err # "" THEN right
  ELSE IF op = "/" /\ IsZero(right.val) THEN [err |-> "division by zero", val |-> NaN]
  ELSE [err |-> "",
        val |-> CASE op = "+" -> Add(left.val, right.val)
                  [] op = "-" -> Sub(left.val, right.val)
                  [] op = "*" -> Mul(left.val, right.val)
                  [] op = "/" -> Div(left.val, right.val)
                  [] op = "^" -> Pow(left.val, right.val)]

RefDigit(ch) == [err |-> "", val |-> Num(DigitValue(ch))]

RefNeg(x) == IF x.err # "" THEN x ELSE [err |-> "", val |-> Neg(x.val)]

\* The result of evaluate for a reference outcome.
RefResult(x) ==
  IF x.err # "" THEN [ok |-> FALSE, error |-> x.err] ELSE ResultFor(x.val)

BinaryOps == {"+", "-", "*", "/", "^"}

\* The text is a op b op c with one-digit operands and the same op twice.
IsChain(text, op) ==
  /\ Len(text) = 5
  /\ isDigit(text[1]) /\ isDigit(text[3]) /\ isDigit(text[5])
  /\ text[2] = op /\ text[4] = op

\* What a op b op c is to give: a^(b^c), and (a op b) op c for + - * /.
ChainOutcome(text) ==
  LET a == RefDigit(text[1])
      b == RefDigit(text[3])
      c == RefDigit(text[5])
      op == text[2]
  IN IF op = "^" THEN RefApply(op, a, RefApply(op, b, c))
     ELSE RefApply(op, RefApply(op, a, b), c)

\* C2: a^b^c is evaluated as a^(b^c); a-b-c, a/b/c, a+b+c and a*b*c are
\* evaluated as (a op b) op c.
C2_Associativity ==
  \A p \in Procs :
    (Returned(p) /\ \E op \in BinaryOps : IsChain(calls[p].expression, op)) =>
      calls[p].result = RefResult(ChainOutcome(calls[p].expression))

\* 2^3^2 has given 512 (not 64) and 2-3-2 has given -3 (not 1), 3/2/3 1/2.
C2_Witness ==
  \E p \in Procs :
    /\ Returned(p)
    /\ \/ /\ calls[p].expression = <<"2", "^", "3", "^", "2">>
          /\ calls[p].result = [ok |-> TRUE, value |-> Num(512)]
       \/ /\ calls[p].expression = <<"2", "-", "3", "-", "2">>
          /\ calls[p].result = [ok |-> TRUE, value |-> Num(-3)]

\* The text is -a^b, a^-b, with one-digit operands.
IsNegPower(text) ==
  Len(text) = 4 /\ text[1] = "-" /\ isDigit(text[2]) /\ text[3] = "^" /\ isDigit(text[4])

IsPowerNeg(text) ==
  Len(text) = 4 /\ isDigit(text[1]) /\ text[2] = "^" /\ text[3] = "-" /\ isDigit(text[4])

\* C3: -a^b is -(a^b), and a^-b is a^(-b).
C3_UnaryPower ==
  \A p \in Procs :
    LET text == calls[p].expression
    IN /\ (Returned(p) /\ IsNegPower(text)) =>
            calls[p].result =
              RefResult(RefNeg(RefApply("^", RefDigit(text[2]), RefDigit(text[4]))))
       /\ (Returned(p) /\ IsPowerNeg(text)) =>
            calls[p].result =
              RefResult(RefApply("^", RefDigit(text[1]), RefNeg(RefDigit(text[4]))))

\* -2^2 has given -4 (not 4).
C3_Witness ==
  \E p \in Procs :
    /\ Returned(p)
    /\ calls[p].expression = <<"-", "2", "^", "2">>
    /\ calls[p].result = [ok |-> TRUE, value |-> Num(-4)]

\* The evaluator has returned a value to evaluate (held in value).
EvaluatorReturned(c) ==
  c.pc \in {"return", "done"} /\ c.thrown = "" /\ c.stages = <<"tokenize", "toRpn", "evalRpn">>

CalculationError == [ok |-> FALSE, error |-> "calculation error"]

\* C4: an ok result carries a finite number; a final value of the evaluator
\* that is NaN or +-Infinity gives the failure "calculation error".
C4_FiniteResult ==
  \A p \in Procs :
    Returned(p) =>
      /\ calls[p].result.ok => IsFiniteNumber(calls[p].result.value)
      /\ (EvaluatorReturned(calls[p]) /\ ~IsFiniteNumber(calls[p].value)) =>
           calls[p].result = CalculationError

\* 0^-2*0 has been evaluated to NaN and reported as the calculation error.
C4_Witness ==
  \E p \in Procs :
    /\ Returned(p) /\ EvaluatorReturned(calls[p])
    /\ calls[p].value.k = "nan"
    /\ calls[p].result = CalculationError

\* r is { ok: true, value } or { ok: false, error } and nothing else.
IsResult(r) ==
  \/ DOMAIN r = {"ok", "value"} /\ r.ok = TRUE /\ r.value.k \in {"fin", "sym", "inf", "nan"}
  \/ DOMAIN r = {"ok", "error"} /\ r.ok = FALSE /\ r.error # ""

Running == {"tokenize", "toRpn", "evalRpn", "return", "catch"}

\* C5: evaluate is total and lets no error escape: a call that has not
\* returned always has its next step to take, it has no result before it
\* returns and one result (a value or a message) when it has, and an error
\* thrown in tokenize, toRpn or evalRpn ends it with the failure of that
\* message and no value.
C5_TotalNoEscape ==
  \A p \in Procs :
    LET c == calls[p]
    IN /\ c.pc \in Running => StepOf(Load(p)).pc \in Running \cup {"done"}
       /\ c.pc = "done" => IsResult(c.result)
       /\ c.pc # "done" => c.result = Pending
       /\ c.thrown # "" => c.pc \in {"catch", "done"}
       /\ (c.thrown # "" /\ c.pc = "done") => c.result = [ok |-> FALSE, error |-> c.thrown]

\* An error thrown by the evaluator has become the failure returned.
C5_Witness ==
  \E p \in Procs :
    /\ Returned(p)
    /\ calls[p].thrown = "division by zero"
    /\ calls[p].stages = <<"tokenize", "toRpn", "evalRpn">>
    /\ calls[p].result = [ok |-> FALSE, error |-> "division by zero"]

IsBlank(text) == \A j \in DOMAIN text : isWhitespace(text[j])

\* C8: an empty or whitespace-only input gives the failure "empty
\* expression", and neither toRpn nor evalRpn is run.
C8_BlankInput ==
  \A p \in Procs :
    IsBlank(calls[p].expression) =>
      /\ calls[p].pc \in {"idle", "tokenize", "done"}
      /\ calls[p].stages \in {<<>>, <<"tokenize">>}
      /\ Returned(p) => calls[p].result = [ok |-> FALSE, error |-> "empty expression"]

\* Two blanks have been scanned and rejected.
C8_Witness ==
  \E p \in Procs :
    /\ Returned(p)
    /\ calls[p].expression = <<" ", " ">>
    /\ calls[p].stages = <<"tokenize">>
    /\ calls[p].result = [ok |-> FALSE, error |-> "empty expression"]

\* C6: evaluate is a pure function: calls with the same expression text and
\* the same context have returned the same result, whatever other calls
\* were made before or between them.
C6_Pure ==
  \A g, h \in hist :
    (g.expression = h.expression /\ g.context = h.context) => g.result = h.result

\* Both callers have returned from a call of ans*2 with ans = 7, after a
\* call with another input has returned.
C6_Witness ==
  /\ \A p \in Procs :
       /\ Returned(p)
       /\ calls[p].expression = <<"a", "n", "s", "*", "2">>
       /\ calls[p].context = WithAns("DEG", Num(7))
       /\ calls[p].result = [ok |-> TRUE, value |-> Num(14)]
  /\ \E h \in hist : h.expression # <<"a", "n", "s", "*", "2">>

\* C7: calls whose steps interleave do not interfere: each returns the
\* result it returns when it runs alone.
C7_NoInterference ==
  \A p \in Procs :
    Returned(p) =>
      calls[p].result = Evaluate(calls[p].expression, calls[p].context).result

\* The second call has run from its start to its return while the first
\* call (not yet returned from anything) was inside evalRpn.
C7_Witness ==
  /\ calls[1].pc = "evalRpn" /\ calls[1].k > 1 /\ hist # {}
  /\ \A h \in hist : h.expression = calls[2].expression /\ h.context = calls[2].context
  /\ Returned(2)
  /\ calls[2].expression = <<"2", "-", "3">>
  /\ calls[2].result = [ok |-> TRUE, value |-> Num(-1)]

\* The text has the letters a, n, s (in any case) one after the other.
AnsAt(text, j) ==
  /\ j + 2 <= Len(text)
  /\ text[j] \in {"a", "A"} /\ text[j + 1] \in {"n", "N"} /\ text[j + 2] \in {"s", "S"}

ContainsAns(text) == \E j \in 1..Len(text) : AnsAt(text, j)

\* C9: with a prior result v the evaluator gives v for every ans token, in
\* any letter case (ans+1 is v+1); with no prior result every expression
\* that contains ans fails, and ans alone fails with "ANS undefined".
C9_AnsVariable ==
  \A p \in Procs :
    LET c == calls[p]
        text == c.expression
    IN /\ (c.pc = "evalRpn" /\ c.k > 1 /\ heap[p].output[c.k - 1].type = "variable") =>
            (c.context.hasAns /\ Last(heap[p].estack) = c.context.ans)
       /\ (Returned(p) /\ c.context.hasAns /\ Len(text) = 5 /\ AnsAt(text, 1)
           /\ text[4] = "+" /\ text[5] = "1") =>
            c.result = [ok |-> TRUE, value |-> Add(c.context.ans, Num(1))]
       /\ (Returned(p) /\ ~c.context.hasAns /\ ContainsAns(text)) => ~c.result.ok
       /\ (Returned(p) /\ ~c.context.hasAns /\ Len(text) = 3 /\ AnsAt(text, 1)) =>
            c.result = [ok |-> FALSE, error |-> "ANS undefined"]

\* AnS+1 has given 8 for the prior result 7.
C9_Witness ==
  \E p \in Procs :
    /\ Returned(p)
    /\ calls[p].expression = <<"A", "n", "S", "+", "1">>
    /\ calls[p].context = WithAns("DEG", Num(7))
    /\ calls[p].result = [ok |-> TRUE, value |-> Num(8)]

\* The evaluator of call p is about to apply / with a right operand 0.
DividesByZero(p) ==
  /\ calls[p].pc = "evalRpn"
  /\ calls[p].k <= Len(heap[p].output)
  /\ heap[p].output[calls[p].k] = OperatorToken("/")
  /\ Len(heap[p].estack) >= 2
  /\ IsZero(Last(heap[p].estack))

DivisionByZero == [ok |-> FALSE, error |-> "division by zero"]

\* C10: whenever the evaluator applies / with a right operand equal to 0
\* (+0 or -0), whatever the left operand, the step throws "division by
\* zero", and the call returns that failure.
C10_DivisionByZero ==
  /\ [][\A p \in Procs :
          (DividesByZero(p) /\ calls'[p] # calls[p]) =>
             (calls'[p].pc = "catch" /\ calls'[p].thrown = "division by zero")]_vars
  /\ [](\A p \in Procs :
          (Returned(p) /\ calls[p].thrown = "division by zero") =>
             calls[p].result = DivisionByZero)

\* 0/0 has returned the division-by-zero failure.
C10_Witness ==
  \E p \in Procs :
    /\ Returned(p)
    /\ calls[p].expression = <<"0", "/", "0">>
    /\ calls[p].thrown = "division by zero"
    /\ calls[p].result = DivisionByZero

\* The functions with a domain check, and the message each throws.
DomainFunctions == {"sqrt", "log", "ln", "asin", "acos"}

DomainError(name) ==
  CASE name = "sqrt" -> "sqrt: negative argument"
    [] name \in {"log", "ln"} -> name \o ": argument must be positive"
    [] name \in {"asin", "acos"} -> name \o ": argument must be in -1..1"

\* The evaluator of call p is about to apply a one-argument call of a
\* function with a domain check.
AppliesDomainFunction(p) ==
  /\ calls[p].pc = "evalRpn"
  /\ calls[p].k <= Len(heap[p].output)
  /\ heap[p].output[calls[p].k].type = "function"
  /\ heap[p].output[calls[p].k].str \in DomainFunctions
  /\ heap[p].output[calls[p].k].argCount = 1
  /\ Len(heap[p].estack) >= 1
  /\ IsNumber(Last(heap[p].estack))

\* x is outside the domain of the function; x is inside it.
OutsideDomain(name, x) ==
  CASE name = "sqrt" -> NumLt(x, Num(0))
    [] name \in {"log", "ln"} -> NumLt(x, Num(0)) \/ IsZero(x)
    [] name \in {"asin", "acos"} -> NumLt(x, Num(-1)) \/ NumLt(Num(1), x)

InsideDomain(name, x) ==
  CASE name = "sqrt" -> NumLt(Num(0), x) \/ IsZero(x)
    [] name \in {"log", "ln"} -> NumLt(Num(0), x)
    [] name \in {"asin", "acos"} ->
         x.k = "fin" /\ ~NumLt(x, Num(-1)) /\ ~NumLt(Num(1), x)

\* C11: in both angle modes, sqrt of x < 0, log and ln of x <= 0, asin and
\* acos of x outside [-1, 1] throw the function's domain error, and the call
\* returns a failure; an argument inside the domain raises no domain error.
C11_DomainErrors ==
  /\ [][\A p \in Procs :
          (AppliesDomainFunction(p) /\ calls'[p] # calls[p]) =>
             LET name == heap[p].output[calls[p].k].str
                 x == Last(heap[p].estack)
             IN /\ OutsideDomain(name, x) =>
                     (calls'[p].pc = "catch" /\ calls'[p].thrown = DomainError(name))
                /\ InsideDomain(name, x) => calls'[p].pc = "evalRpn"]_vars
  /\ [](\A p \in Procs :
          (Returned(p) /\ \E name \in DomainFunctions : calls[p].thrown = DomainError(name))
            => calls[p].result = [ok |-> FALSE, error |-> calls[p].thrown])

\* asin(-1.5) has returned its domain error in RAD mode.
C11_Witness ==
  \E p \in Procs :
    /\ Returned(p)
    /\ calls[p].expression = <<"a", "s", "i", "n", "(", "-", "1", ".", "5", ")">>
    /\ calls[p].context.mode = "RAD"
    /\ calls[p].result = [ok |-> FALSE, error |-> "asin: argument must be in -1..1"]

IsParen(token, ch) == token.type = "paren" /\ token.str = ch

\* The number of '(' less the number of ')' among the first n tokens.
RECURSIVE ParenDepth(_, _)
ParenDepth(tokens, n) ==
  IF n = 0 THEN 0
  ELSE ParenDepth(tokens, n - 1)
       + (IF IsParen(tokens[n], "(") THEN 1 ELSE IF IsParen(tokens[n], ")") THEN -1 ELSE 0)

\* Some prefix has more ')' than '(', or the totals differ.
Unbalanced(tokens) ==
  \/ \E n \in 1..Len(tokens) : ParenDepth(tokens, n) < 0
  \/ ParenDepth(tokens, Len(tokens)) # 0

\* The call ended inside toRpn.
FailedInToRpn(p) ==
  /\ calls[p].pc \in {"catch", "done"}
  /\ calls[p].stages = <<"tokenize", "toRpn">>
  /\ calls[p].thrown # ""

\* C12: a token sequence with unbalanced parentheses is never accepted by
\* toRpn (evaluate returns a failure and evalRpn is not run); a ')' with no
\* open '(' and a '(' left on the operator stack when it is drained both
\* give the unbalanced-parentheses error.
C12_UnbalancedRejected ==
  \A p \in Procs :
    LET c == calls[p]
        tokens == heap[p].tokens
    IN /\ (Returned(p) /\ Len(c.stages) >= 2 /\ Unbalanced(tokens)) =>
            (FailedInToRpn(p) /\ c.result = [ok |-> FALSE, error |-> c.thrown])
       /\ (FailedInToRpn(p) /\ c.t <= Len(tokens) /\ IsParen(tokens[c.t], ")")
           /\ ParenDepth(tokens, c.t - 1) = 0) =>
            c.thrown = "unbalanced parentheses"
       /\ (FailedInToRpn(p) /\ c.t > Len(tokens)
           /\ c.lastType \in {"start", "value", "rparen"}
           /\ \E j \in DOMAIN heap[p].stack : heap[p].stack[j].type = "paren") =>
            c.thrown = "unbalanced parentheses"

\* (2 has returned the unbalanced-parentheses failure from the drain loop.
C12_Witness ==
  \E p \in Procs :
    /\ Returned(p) /\ FailedInToRpn(p)
    /\ calls[p].expression = <<"(", "2">>
    /\ calls[p].t > Len(heap[p].tokens)
    /\ calls[p].result = [ok |-> FALSE, error |-> "unbalanced parentheses"]

\* The index of the '(' that the ')' after token j closes (d closes are
\* still to be matched), 0 if there is none.
RECURSIVE MatchingOpen(_, _, _)
MatchingOpen(tokens, j, d) ==
  IF j < 1 THEN 0
  ELSE IF IsParen(tokens[j], ")") THEN MatchingOpen(tokens, j - 1, d + 1)
  ELSE IF IsParen(tokens[j], "(")
    THEN (IF d = 0 THEN j ELSE MatchingOpen(tokens, j - 1, d - 1))
  ELSE MatchingOpen(tokens, j - 1, d)

\* The commas among tokens from..to that are inside no nested group (d is
\* the nesting depth at from).
RECURSIVE OwnCommas(_, _, _, _)
OwnCommas(tokens, from, to, d) ==
  IF from > to THEN 0
  ELSE IF IsParen(tokens[from], "(") THEN OwnCommas(tokens, from + 1, to, d + 1)
  ELSE IF IsParen(tokens[from], ")") THEN OwnCommas(tokens, from + 1, to, d - 1)
  ELSE (IF tokens[from].type = "comma" /\ d = 0 THEN 1 ELSE 0)
       + OwnCommas(tokens, from + 1, to, d)

\* The text is min(...) or max(...) of one-digit arguments.
IsDigitCall(text) ==
  /\ Len(text) >= 6 /\ Len(text) % 2 = 0
  /\ SubSeq(text, 1, 3) \in {Lmin, Lmax}
  /\ text[4] = "(" /\ text[Len(text)] = ")"
  /\ \A j \in 5..(Len(text) - 1) :
       IF j % 2 = 1 THEN isDigit(text[j]) ELSE text[j] = ","

DigitArgs(text) == {DigitValue(text[j]) : j \in {m \in 5..(Len(text) - 1) : m % 2 = 1}}

DigitCallValue(text) ==
  LET args == DigitArgs(text)
  IN IF SubSeq(text, 1, 3) = Lmin
     THEN CHOOSE a \in args : \A b \in args : a <= b
     ELSE CHOOSE a \in args : \A b \in args : a >= b

\* C13: the function instruction toRpn emits at the ')' of a call has
\* argCount = 1 + the commas at that call's own nesting level, and min/max
\* return the minimum/maximum of all their arguments.
C13_ArgCount ==
  \A p \in Procs :
    LET c == calls[p]
        tokens == heap[p].tokens
        open == MatchingOpen(tokens, c.t - 2, 0)
    IN /\ (c.pc = "toRpn" /\ c.t > 1 /\ IsParen(tokens[c.t - 1], ")")
           /\ open > 1 /\ tokens[open - 1].type = "function") =>
            Last(heap[p].output)
              = RpnFunction(tokens[open - 1].str,
                            1 + OwnCommas(tokens, open + 1, c.t - 2, 0))
       /\ (Returned(p) /\ IsDigitCall(c.expression)) =>
            c.result = [ok |-> TRUE, value |-> Num(DigitCallValue(c.expression))]

\* min(3,1,2) has returned 1.
C13_Witness ==
  \E p \in Procs :
    /\ Returned(p)
    /\ calls[p].expression = <<"m", "i", "n", "(", "3", ",", "1", ",", "2", ")">>
    /\ calls[p].result = [ok |-> TRUE, value |-> Num(1)]

Stages == <<"tokenize", "toRpn", "evalRpn">>

\* The text has a character the tokenizer does not know.
HasUnknownCharacter(text) == \E j \in DOMAIN text : text[j] = "$"

\* C14: the stages are strictly ordered: toRpn starts only after tokenize
\* has consumed the whole text without error, evalRpn only after toRpn has
\* accepted every token; so a lexical error anywhere is reported rather than
\* a syntax or math error, and a syntax error rather than a math error.
C14_StageOrder ==
  \A p \in Procs :
    LET c == calls[p]
        n == Len(c.stages)
    IN /\ n <= 3 /\ c.stages = SubSeq(Stages, 1, n)
       /\ n >= 2 => (c.i = Len(c.expression) + 1 /\ ~HasUnknownCharacter(c.expression))
       /\ n = 3 => (c.t = Len(heap[p].tokens) + 1 /\ ~Unbalanced(heap[p].tokens))
       /\ (Returned(p) /\ HasUnknownCharacter(c.expression)) =>
            (n = 1 /\ c.result = [ok |-> FALSE, error |-> "unknown character: $"])
       /\ (Returned(p) /\ n >= 2 /\ Unbalanced(heap[p].tokens)) =>
            (n = 2 /\ ~c.result.ok /\ c.result.error # "division by zero")

\* 1/0$ has returned the lexical error, with neither toRpn nor evalRpn run.
C14_Witness ==
  \E p \in Procs :
    /\ Returned(p)
    /\ calls[p].expression = <<"1", "/", "0", "$">>
    /\ calls[p].stages = <<"tokenize">>
    /\ calls[p].result = [ok |-> FALSE, error |-> "unknown character: $"]

\* A recogniser of grammatical infix expressions over a token sequence:
\*   Expr := Unary { operator Unary }      Unary := { + | - } Primary
\*   Primary := number | variable | ( Expr ) | function ( Expr { , Expr } )
\* Each function returns the position after the match, 0 if there is none.
RECURSIVE GExpr(_, _), GExprTail(_, _), GUnary(_, _), GPrimary(_, _), GArgsTail(_, _)

GPrimary(tokens, pos) ==
  IF pos > Len(tokens) THEN 0
  ELSE IF tokens[pos].type \in {"number", "variable"} THEN pos + 1
  ELSE IF IsParen(tokens[pos], "(")
    THEN LET e == GExpr(tokens, pos + 1)
         IN IF e > 0 /\ e <= Len(tokens) /\ IsParen(tokens[e], ")") THEN e + 1 ELSE 0
  ELSE IF tokens[pos].type = "function"
          /\ pos + 1 <= Len(tokens) /\ IsParen(tokens[pos + 1], "(")
    THEN LET e == GExpr(tokens, pos + 2)
         IN IF e = 0 THEN 0 ELSE GArgsTail(tokens, e)
  ELSE 0

\* pos follows an argument of a call.
GArgsTail(tokens, pos) ==
  IF pos > Len(tokens) THEN 0
  ELSE IF IsParen(tokens[pos], ")") THEN pos + 1
  ELSE IF tokens[pos].type = "comma"
    THEN LET e == GExpr(tokens, pos + 1)
         IN IF e = 0 THEN 0 ELSE GArgsTail(tokens, e)
  ELSE 0

GUnary(tokens, pos) ==
  IF pos <= Len(tokens) /\ tokens[pos].type = "operator" /\ tokens[pos].str \in {"+", "-"}
  THEN GUnary(tokens, pos + 1)
  ELSE GPrimary(tokens, pos)

\* pos follows an operand.
GExprTail(tokens, pos) ==
  IF pos <= Len(tokens) /\ tokens[pos].type = "operator"
  THEN LET u == GUnary(tokens, pos + 1)
       IN IF u = 0 THEN 0 ELSE GExprTail(tokens, u)
  ELSE pos

GExpr(tokens, pos) ==
  LET u == GUnary(tokens, pos) IN IF u = 0 THEN 0 ELSE GExprTail(tokens, u)

Grammatical(tokens) == GExpr(tokens, 1) = Len(tokens) + 1

\* C15: evaluate returns ok only for token sequences that form a
\* grammatical infix expression (every binary operator between two operands,
\* no two values adjacent, every function name followed by a parenthesised
\* argument list); every other token sequence yields a failure.
C15_GrammarEnforced ==
  \A p \in Procs :
    (Returned(p) /\ calls[p].result.ok) => Grammatical(heap[p].tokens)

\* The failures of evalRpn that tell of a malformed RPN sequence: an operand
\* missing for an operator or a function, and a final stack that does not
\* hold exactly one value.
StructuralFailures ==
  {"unary operand missing", "operator operands missing", "missing function argument",
   "evaluation failed"}

\* C18: for every token sequence toRpn accepts, evalRpn never lacks an
\* operand and ends with exactly one value on its stack: none of its
\* structural failures is ever thrown.
C18_NoStructuralFailure ==
  \A p \in Procs :
    Len(calls[p].stages) = 3 => calls[p].thrown \notin StructuralFailures

\* C17: the tokenizer rejects a numeric literal whose conversion gives a
\* non-finite value: no number token with a non-finite value is ever among
\* the tokens.
C17_FiniteLiterals ==
  \A p \in Procs :
    \A j \in DOMAIN heap[p].tokens :
      heap[p].tokens[j].type = "number" => IsFiniteNumber(heap[p].tokens[j].num)

\* The text is one run of ASCII letters.
IsLetterRun(text) == Len(text) > 0 /\ \A j \in DOMAIN text : isAlpha(text[j])

\* C19: a run of ASCII letters is classified as a whole, case-insensitively:
\* a function token iff it is one of the 13 function names, a number token
\* iff it is pi or e, a variable token iff it is ans; every other run makes
\* tokenize fail with the unknown-token error.
C19_IdentifierClasses ==
  \A p \in Procs :
    (calls[p].pc \notin {"idle", "tokenize"} /\ IsLetterRun(calls[p].expression)) =>
      LET name == LowerSlice(calls[p].expression, 1, Len(calls[p].expression))
          tokens == heap[p].tokens
      IN IF name \in FUNCTIONS THEN tokens = <<FunctionToken(name)>>
         ELSE IF name \in {"pi", "e"} THEN tokens = <<NumberToken(Sym(name))>>
         ELSE IF name = "ans" THEN tokens = <<VariableToken(name)>>
         ELSE /\ tokens = <<>>
              /\ calls[p].stages = <<"tokenize">>
              /\ calls[p].thrown = "unknown token: " \o name

\* The translator of call p is about to process a comma.
AtComma(p) ==
  /\ calls[p].pc = "toRpn"
  /\ calls[p].t <= Len(heap[p].tokens)
  /\ heap[p].tokens[calls[p].t].type = "comma"

\* C20: toRpn accepts a comma only when the innermost open group is a
\* function call and the previous token is a value or a close-paren, and
\* fails with a syntax error for a comma anywhere else; an accepted comma
\* pops the pending operators down to the enclosing '(' and increments that
\* group's argument counter alone.
C20_CommaPosition ==
  [][\A p \in Procs :
       (AtComma(p) /\ calls'[p] # calls[p]) =>
          IF /\ Len(heap[p].argStack) > 0
             /\ Last(heap[p].argStack) # null
             /\ calls[p].lastType \in {"value", "rparen"}
          THEN LET r == PopToParen(heap[p].stack, heap[p].output)
                   n == Len(heap[p].argStack)
               IN /\ calls'[p].pc = "toRpn"
                  /\ heap'[p].stack = r.stack /\ heap'[p].output = r.output
                  /\ heap'[p].argStack
                       = [heap[p].argStack EXCEPT ![n] = heap[p].argStack[n] + 1]
          ELSE /\ calls'[p].pc = "catch"
               /\ calls'[p].thrown \in {"misplaced comma", "missing function argument"}]_vars

\* C16: evaluateExpression on an empty or whitespace-only expression makes
\* no call of evaluate and leaves every field of the page's state
\* (expression, result, ans, error, justEvaluated, mode) as it was.
BlankPress == universe = "ui" /\ budget' < budget /\ IsBlank(state.expression)

C16_BlankNotEvaluated ==
  [][BlankPress => (hist' = hist /\ state' = state)]_vars

\* The = key has been pressed on a blank expression line, after the mode had
\* been switched.
C16_Witness ==
  /\ universe = "ui"
  /\ budget = MaxEvals - 1
  /\ hist = {}
  /\ state = [InitialState EXCEPT !.mode = "RAD"]

\* toRpn has returned the RPN of call p (heap[p].output).
Translated(p) == "evalRpn" \in Range(calls[p].stages)

\* The tokens of call p hold no parenthesis (and so no call and no comma).
ParenFree(p) ==
  \A j \in DOMAIN heap[p].tokens : heap[p].tokens[j].type \in {"number", "operator"}

IsUnaryRpn(token) == token.type = "operator" /\ token.str \in {"u+", "u-"}

\* In the RPN of call p a unary operator stands directly after the last
\* token of its operand: the operand's outermost operator, if it has one.
\* No unary operator of p has an operand whose outermost operator is in ops.
UnaryOperandAvoids(p, ops) ==
  \A q \in DOMAIN heap[p].output :
    IsUnaryRpn(heap[p].output[q]) =>
      /\ q > 1
      /\ ~(heap[p].output[q - 1].type = "operator" /\ heap[p].output[q - 1].str \in ops)

\* C21, as stated: unary + and - bind tighter than every binary operator. In
\* the RPN of a parenthesis-free expression the operand of a unary operator
\* is what directly follows it in the source, so no binary operator
\* (+ - * / ^) is applied inside the operand.
C21_UnaryTightest ==
  \A p \in Procs :
    (Translated(p) /\ ParenFree(p)) =>
      UnaryOperandAvoids(p, {"+", "-", "*", "/", "^"})

\* C21, amended: unary + and - bind tighter than + - * / only; a ^ that
\* follows the operand is applied first.
C21_UnaryAboveArithmetic ==
  \A p \in Procs :
    (Translated(p) /\ ParenFree(p)) => UnaryOperandAvoids(p, {"+", "-", "*", "/"})

\* The RPN of -2*3 is 2 u- 3 *, and the call has returned -6.
C21_Witness ==
  \E p \in Procs :
    /\ Returned(p)
    /\ calls[p].expression = <<"-", "2", "*", "3">>
    /\ heap[p].output = <<NumberToken(Num(2)), OperatorToken("u-"),
                          NumberToken(Num(3)), OperatorToken("*")>>
    /\ calls[p].result = [ok |-> TRUE, value |-> Num(-6)]

\* Call p is in toRpn's loop at an operator token.
AtOperator(p) ==
  /\ calls[p].pc = "toRpn"
  /\ calls[p].t <= Len(heap[p].tokens)
  /\ heap[p].tokens[calls[p].t].type = "operator"

\* The tokens of q from index j + 1 on, last first.
RECURSIVE PoppedFrom(_, _)
PoppedFrom(q, j) ==
  IF j >= Len(q) THEN <<>> ELSE <<q[Len(q)]>> \o PoppedFrom(SubSeq(q, 1, Len(q) - 1), j)

\* C22: toRpn translates an operator token + or - to u+ / u- iff the token
\* before it is of kind start, operator, lparen or comma, and then pushes it
\* with nothing popped; after a value, a ')' or a function name the operator
\* stays binary, as * / ^ do everywhere: the operator pushed has the token's
\* own text, on top of what is left of the stack once the popped operators
\* have gone to the output.
C22_UnaryForm ==
  [][\A p \in Procs :
       (AtOperator(p) /\ calls'[p] # calls[p]) =>
          LET op == heap[p].tokens[calls[p].t].str
              prev == calls[p].lastType
              stack == heap[p].stack
              after == heap'[p].stack
          IN /\ prev \in {"start", "operator", "lparen", "comma", "value", "rparen",
                          "function"}
             /\ calls'[p].pc = "toRpn" /\ calls'[p].lastType = "operator"
             /\ IF op \in {"+", "-"} /\ prev \in {"start", "operator", "lparen", "comma"}
                THEN /\ after = Append(stack, OperatorToken(IF op = "+" THEN "u+" ELSE "u-"))
                     /\ heap'[p].output = heap[p].output
                ELSE /\ after # <<>> /\ Last(after) = OperatorToken(op)
                     /\ Len(after) - 1 <= Len(stack)
                     /\ Front(after) = SubSeq(stack, 1, Len(after) - 1)
                     /\ heap'[p].output
                          = heap[p].output \o PoppedFrom(stack, Len(after) - 1)]_vars

\* The minus of min-2, after a function name, has been pushed as a binary
\* operator.
C22_Witness ==
  \E p \in Procs :
    /\ calls[p].pc = "toRpn"
    /\ calls[p].expression = <<"m", "i", "n", "-", "2">>
    /\ calls[p].t = 3
    /\ heap[p].stack = <<FunctionToken("min"), OperatorToken("-")>>

\* toRpn has been called by call p and has returned or thrown.
LeftToRpn(p) == "toRpn" \in Range(calls[p].stages) /\ calls[p].pc # "toRpn"

\* The last token of call p is an operator, a comma, a '(' or a function name.
EndsOpen(p) ==
  LET tokens == heap[p].tokens
      last == tokens[Len(tokens)]
  IN /\ tokens # <<>>
     /\ \/ last.type \in {"operator", "comma", "function"}
        \/ last.type = "paren" /\ last.str = "("

\* C23, as stated: every token sequence whose last token is an operator, a
\* comma, a '(' or a function name makes toRpn fail with the
\* incomplete-expression error.
C23_AlwaysIncomplete ==
  \A p \in Procs :
    (LeftToRpn(p) /\ EndsOpen(p)) => calls[p].thrown = "incomplete expression"

\* C23, amended: such a token sequence makes toRpn fail, and with the
\* incomplete-expression error whenever the scan has reached the end of the
\* tokens (no earlier token has made toRpn fail); the check comes before the
\* drain, so a '(' left on the stack is not reported.
C23_IncompleteAtEnd ==
  \A p \in Procs :
    (LeftToRpn(p) /\ EndsOpen(p)) =>
      /\ calls[p].thrown # ""
      /\ ~Translated(p)
      /\ calls[p].t > Len(heap[p].tokens) => calls[p].thrown = "incomplete expression"

\* (2+( has been scanned to its end, with both '(' still on the stack, and
\* has failed with the incomplete-expression error.
C23_Witness ==
  \E p \in Procs :
    /\ Returned(p)
    /\ calls[p].expression = <<"(", "2", "+", "(">>
    /\ calls[p].t = 5
    /\ Len(heap[p].stack) = 3
    /\ calls[p].result = [ok |-> FALSE, error |-> "incomplete expression"]

IsOpen(token) == token.type = "paren" /\ token.str = "("

IsClose(token) == token.type = "paren" /\ token.str = ")"

\* Token j of tokens is a ')' or a comma that directly follows a '(' or a
\* comma: an empty group or an empty argument slot.
EmptySlotAt(tokens, j) ==
  /\ j > 1 /\ j <= Len(tokens)
  /\ IsClose(tokens[j]) \/ tokens[j].type = "comma"
  /\ IsOpen(tokens[j - 1]) \/ tokens[j - 1].type = "comma"

\* Token j is a comma directly after a '(' that does not follow a function
\* name: a comma at the start of a group.
GroupCommaAt(tokens, j) ==
  /\ EmptySlotAt(tokens, j)
  /\ tokens[j].type = "comma" /\ IsOpen(tokens[j - 1])
  /\ j = 2 \/ tokens[j - 2].type # "function"

\* Call p takes toRpn's step at an empty group or an empty argument slot.
AtEmptySlot(p) ==
  /\ calls[p].pc = "toRpn"
  /\ EmptySlotAt(heap[p].tokens, calls[p].t)

RECURSIVE MatchingClose(_, _, _)
MatchingClose(tokens, j, d) ==
  IF j > Len(tokens) THEN 0
  ELSE IF IsOpen(tokens[j]) THEN MatchingClose(tokens, j + 1, d + 1)
  ELSE IF IsClose(tokens[j])
    THEN (IF d = 0 THEN j ELSE MatchingClose(tokens, j + 1, d - 1))
  ELSE MatchingClose(tokens, j + 1, d)

\* The functions of one argument.
OneArgFunctions ==
  {"sin", "cos", "tan", "asin", "acos", "atan", "log", "ln", "sqrt", "abs", "exp"}

\* Token j is the name of a function of one argument, called with two or
\* more comma-separated arguments.
OverfullCallAt(tokens, j) ==
  /\ tokens[j].type = "function" /\ tokens[j].str \in OneArgFunctions
  /\ j < Len(tokens) /\ IsOpen(tokens[j + 1])
  /\ LET close == MatchingClose(tokens, j + 2, 0)
     IN close > 0 /\ OwnCommas(tokens, j + 2, close - 1, 0) >= 1

\* The text is min(...) or max(...) of one to three one-digit arguments.
IsMinMaxOfDigits(text) ==
  /\ Len(text) \in {6, 8, 10}
  /\ SubSeq(text, 1, 3) \in {Lmin, Lmax}
  /\ text[4] = "(" /\ text[Len(text)] = ")"
  /\ \A j \in 5..(Len(text) - 1) :
       IF j % 2 = 1 THEN isDigit(text[j]) ELSE text[j] = ","

\* C25: a call of sin, cos, tan, asin, acos, atan, log, ln, sqrt, abs or exp
\* with two or more comma-separated arguments makes evaluate return a
\* failure, never a value; min and max return a value for one argument and
\* for more.
C25_Arity ==
  \A p \in Procs :
    Returned(p) =>
      /\ (\E j \in DOMAIN heap[p].tokens : OverfullCallAt(heap[p].tokens, j)) =>
           ~calls[p].result.ok
      /\ IsMinMaxOfDigits(calls[p].expression) => calls[p].result.ok

\* sqrt(1,0) has failed at the sqrt instruction, with both arguments taken
\* off the operand stack.
C25_Witness ==
  \E p \in Procs :
    /\ Returned(p)
    /\ calls[p].expression = <<"s", "q", "r", "t", "(", "1", ",", "0", ")">>
    /\ calls[p].stages = <<"tokenize", "toRpn", "evalRpn">>
    /\ calls[p].k = 3
    /\ calls[p].result = [ok |-> FALSE, error |-> "sqrt: expects 1 argument"]

\* The characters j..k-1 of text are digits and dots, at most one of them a
\* dot.
IsMantissaRun(text, j, k) ==
  /\ \A m \in j..(k - 1) : isDigit(text[m]) \/ text[m] = "."
  /\ Cardinality({m \in j..(k - 1) : text[m] = "."}) <= 1

\* The end (the index after it) of the longest such run from j.
MantissaEnd(text, j) ==
  CHOOSE k \in j..(Len(text) + 1) :
    /\ IsMantissaRun(text, j, k)
    /\ \A m \in (k + 1)..(Len(text) + 1) : ~IsMantissaRun(text, j, m)

\* The end of the longest run of digits from j.
DigitsEnd(text, j) ==
  CHOOSE k \in j..(Len(text) + 1) :
    /\ \A m \in j..(k - 1) : isDigit(text[m])
    /\ k <= Len(text) => ~isDigit(text[k])

\* The end of the literal that starts at j: after the exponent suffix if e
\* or E, an optional sign and at least one digit follow the mantissa,
\* before the e otherwise.
LiteralEnd(text, j) ==
  LET k == MantissaEnd(text, j)
      s == IF k + 1 <= Len(text) /\ text[k + 1] \in {"+", "-"} THEN k + 2 ELSE k + 1
  IN IF k <= Len(text) /\ text[k] \in {"e", "E"} /\ s <= Len(text) /\ isDigit(text[s])
     THEN DigitsEnd(text, s)
     ELSE k

\* Call p is in the scanning loop at a digit or a dot.
AtLiteral(p) ==
  /\ calls[p].pc = "tokenize"
  /\ calls[p].i <= Len(calls[p].expression)
  /\ LET ch == calls[p].expression[calls[p].i] IN isDigit(ch) \/ ch = "."

\* C26: the number token made at a digit or a dot covers the longest run of
\* digits with at most one dot, and the exponent suffix (e or E, an optional
\* sign, digits) only if it has a digit; the scan goes on right after it. A
\* run with no digit makes tokenize fail with the malformed-number error and
\* no token.
C26_LiteralExtent ==
  [][\A p \in Procs :
       (AtLiteral(p) /\ calls'[p] # calls[p]) =>
          LET text == calls[p].expression
              j == calls[p].i
              k == MantissaEnd(text, j)
          IN IF \E m \in j..(k - 1) : isDigit(text[m])
             THEN /\ calls'[p].pc = "tokenize"
                  /\ calls'[p].i = LiteralEnd(text, j)
                  /\ Len(heap'[p].tokens) = Len(heap[p].tokens) + 1
                  /\ Front(heap'[p].tokens) = heap[p].tokens
                  /\ Last(heap'[p].tokens).type = "number"
             ELSE /\ calls'[p].pc = "catch"
                  /\ calls'[p].thrown = "malformed number"
                  /\ heap'[p].tokens = heap[p].tokens]_vars

\* The literal of 1e- has ended before the e: the token 1 has been pushed
\* and the scan stands at the e.
C26_Witness ==
  \E p \in Procs :
    /\ calls[p].pc = "tokenize"
    /\ calls[p].expression = <<"1", "e", "-">>
    /\ calls[p].i = 2
    /\ heap[p].tokens = <<NumberToken(Num(1))>>

\* Call p is in evalRpn's loop at a function instruction.
AtFunction(p) ==
  /\ calls[p].pc = "evalRpn"
  /\ calls[p].k <= Len(heap[p].output)
  /\ heap[p].output[calls[p].k].type = "function"
  /\ heap[p].output[calls[p].k].argCount # undefined

\* C27: applying Function(name, n), the evaluator takes exactly the top n
\* entries off the operand stack and leaves the entries below as they were;
\* the arguments are those n entries in source order, args[0] (here
\* args[1]) being the first argument written, which lies deepest; the
\* arguments of a call lie on the stack in the order they were written.
C27_ArgumentOrder ==
  /\ [][\A p \in Procs :
          (AtFunction(p) /\ calls'[p] # calls[p]) =>
             LET estack == heap[p].estack
                 n == heap[p].output[calls[p].k].argCount
                 below == SubSeq(estack, 1, Len(estack) - n)
                 args == pullArgs(estack, n).args
             IN IF Len(estack) < n
                THEN calls'[p].pc = "catch" /\ heap'[p].estack = estack
                ELSE /\ Len(args) = n
                     /\ \A j \in 1..n : args[j] = estack[Len(estack) - n + j]
                     /\ \/ /\ calls'[p].pc = "evalRpn"
                           /\ Len(heap'[p].estack) = Len(below) + 1
                           /\ Front(heap'[p].estack) = below
                        \/ /\ calls'[p].pc = "catch"
                           /\ heap'[p].estack = below]_vars
  /\ [](\A p \in Procs :
          (AtFunction(p) /\ IsMinMaxOfDigits(calls[p].expression)) =>
             LET text == calls[p].expression
                 n == heap[p].output[calls[p].k].argCount
             IN /\ Len(heap[p].estack) = n
                /\ \A j \in 1..n :
                     pullArgs(heap[p].estack, n).args[j] = Num(DigitValue(text[3 + 2 * j])))

\* (2+min(3))*2 has applied min to the 3 alone: the 2 below it is still on
\* the operand stack, under the 3 that min has returned.
C27_Witness ==
  \E p \in Procs :
    /\ calls[p].pc = "evalRpn"
    /\ calls[p].expression
         = <<"(", "2", "+", "m", "i", "n", "(", "3", ")", ")", "*", "2">>
    /\ calls[p].k = 4
    /\ heap[p].output[3] = RpnFunction("min", 1)
    /\ heap[p].estack = <<Num(2), Num(3)>>

TrigFunctions == {"sin", "cos", "tan", "asin", "acos", "atan"}

\* No token of call p is the name of a trigonometric function.
TrigFree(p) ==
  \A j \in DOMAIN heap[p].tokens :
    ~(heap[p].tokens[j].type = "function" /\ heap[p].tokens[j].str \in TrigFunctions)

OtherMode(mode) == IF mode = "DEG" THEN "RAD" ELSE "DEG"

\* C28: for an expression with no sin, cos, tan, asin, acos or atan among its
\* tokens, and any prior result, evaluate returns in the other angle mode
\* what it returns in this one: the same value or the same failure.
C28_ModeOnlyTrig ==
  \A p \in Procs :
    (Returned(p) /\ TrigFree(p)) =>
      LET other == Evaluate(calls[p].expression,
                            [calls[p].context EXCEPT !.mode = OtherMode(@)])
      IN other.pc = "done" /\ other.result = calls[p].result

\* sqrt(ans) has returned 2 in degree mode with the prior result 4.
C28_Witness ==
  \E p \in Procs :
    /\ Returned(p)
    /\ calls[p].expression = <<"s", "q", "r", "t", "(", "a", "n", "s", ")">>
    /\ calls[p].context = WithAns("DEG", Num(4))
    /\ calls[p].result = [ok |-> TRUE, value |-> Num(2)]

\* C29: every stage is one pass. An iteration of tokenize's scanning loop
\* fails or moves the scan position forward, never past the end of the text;
\* an iteration of toRpn's loop and of evalRpn's loop fails or moves on to
\* the next token. So tokenize makes at most as many iterations (and tokens)
\* as the text has characters, and a stage that returns has visited each of
\* its tokens once.
C29_SinglePass ==
  /\ [][\A p \in Procs :
          LET c == calls[p]
              d == calls'[p]
          IN (c # d \/ heap'[p] # heap[p]) =>
               /\ (c.pc = "tokenize" /\ c.i <= Len(c.expression)) =>
                    \/ d.pc = "catch"
                    \/ d.pc = "tokenize" /\ c.i < d.i /\ d.i <= Len(c.expression) + 1
               /\ (c.pc = "toRpn" /\ c.t <= Len(heap[p].tokens)) =>
                    \/ d.pc = "catch"
                    \/ d.pc = "toRpn" /\ d.t = c.t + 1
               /\ (c.pc = "evalRpn" /\ c.k <= Len(heap[p].output)) =>
                    \/ d.pc = "catch"
                    \/ d.pc = "evalRpn" /\ d.k = c.k + 1]_vars
  /\ [](\A p \in Procs :
          LET c == calls[p]
          IN /\ c.pc = "tokenize" =>
                  (Len(heap[p].tokens) <= c.i - 1 /\ c.i - 1 <= Len(c.expression))
             /\ c.pc = "toRpn" => c.t <= Len(heap[p].tokens) + 1
             /\ c.pc = "evalRpn" => c.k <= Len(heap[p].output) + 1
             /\ "toRpn" \in Range(c.stages) => c.i = Len(c.expression) + 1
             /\ Translated(p) => c.t = Len(heap[p].tokens) + 1
             /\ (Returned(p) /\ c.result.ok) => c.k = Len(heap[p].output) + 1)

\* The scan of " 1.5 TIMES <tab> PI" has reached the end of the text after
\* blanks, a literal and both glyphs, with three tokens, and the call has
\* returned.
C29_Witness ==
  \E p \in Procs :
    /\ Returned(p)
    /\ calls[p].expression = <<" ", "1", ".", "5", " ", "TIMES", "\t", "PI">>
    /\ calls[p].i = 9
    /\ Len(heap[p].tokens) = 3
    /\ calls[p].t = 4
    /\ calls[p].k = 4
    /\ calls[p].result.ok

\* The values of the successful calls of evaluate made so far.
ValuesReturned == {r.result.value : r \in {h \in hist : h.result.ok}}

\* C30: on the page, ans is the value of the most recent successful
\* evaluation, 0 if there has been none. Only a press of = whose evaluation
\* succeeds writes ans (and it writes the value returned); a press whose
\* evaluation fails leaves ans and result as they were, sets error and
\* clears justEvaluated; no other key changes ans; evaluate is always called
\* with ans defined.
C30_AnsIsLastValue ==
  /\ [][universe = "ui" =>
          LET c == Evaluate(state.expression, Context(state.mode, TRUE, state.ans))
              pressed == budget' < budget /\ ~IsBlank(state.expression)
          IN /\ ~pressed => (state'.ans = state.ans /\ hist' = hist)
             /\ (pressed /\ c.result.ok) =>
                  /\ state'.ans = c.result.value
                  /\ state'.justEvaluated /\ state'.error = ""
                  /\ hist' = hist \cup {[expression |-> state.expression,
                                         context |-> c.context, result |-> c.result]}
             /\ (pressed /\ ~c.result.ok) =>
                  /\ state'.ans = state.ans /\ state'.result = state.result
                  /\ state'.error = c.result.error /\ state'.error # ""
                  /\ ~state'.justEvaluated
                  /\ state'.expression = state.expression
                  /\ state'.mode = state.mode]_vars
  /\ [](universe = "ui" =>
          /\ \A h \in hist : h.context.hasAns
          /\ ValuesReturned = {} => state.ans = Num(0)
          /\ state.ans \in ValuesReturned \cup {Num(0)})

\* After 2 = the prior result is 2; the clear key and a failed evaluation of
\* "-" have left it so, with the error of the failure shown.
C30_Witness ==
  /\ universe = "ui"
  /\ budget = MaxEvals - 2
  /\ state.ans = Num(2)
  /\ state.expression = <<"-">>
  /\ state.result = <<"0">>
  /\ state.error # ""
  /\ ~state.justEvaluated

\* The positions of the '(' entries of the operator stack, bottom first.
ParenIndexes(stack) ==
  SelectSeq([j \in 1..Len(stack) |-> j], LAMBDA j : stack[j].type = "paren")

\* The positions, among the first n tokens, of the '(' tokens that no ')'
\* among them has closed, leftmost first.
RECURSIVE OpenIndexes(_, _)
OpenIndexes(tokens, n) ==
  IF n = 0 THEN <<>>
  ELSE LET before == OpenIndexes(tokens, n - 1)
       IN IF IsOpen(tokens[n]) THEN Append(before, n)
          ELSE IF IsClose(tokens[n]) /\ before # <<>> THEN Front(before)
          ELSE before

\* The entry directly beneath position j of the stack is a function token.
FunctionBeneath(stack, j) == j > 1 /\ stack[j - 1].type = "function"

\* toRpn is between two tokens of call p (or before the first, or after the last).
InToRpn(p) == calls[p].pc = "toRpn"

\* No call has failed with the malformed-function-call error.
NeverMalformed ==
  /\ \A p \in Procs : calls[p].thrown # "malformed function call"
  /\ \A h \in hist : ~h.result.ok => h.result.error # "malformed function call"

MissingArguments == {"min: missing arguments", "max: missing arguments"}

\* C32: every function instruction of an RPN sequence toRpn builds has an
\* argCount of at least 1 (the count of an instruction emitted at a ')' is
\* the call's counter plus 1, that of a function name drained from the stack
\* is 1), so min and max never fail for want of arguments.
C32_ArgCountPositive ==
  /\ [](\A p \in Procs :
          /\ \A j \in DOMAIN heap[p].output :
               heap[p].output[j].type = "function" => heap[p].output[j].argCount >= 1
          /\ calls[p].thrown \notin MissingArguments)
  /\ [](\A h \in hist : ~h.result.ok => h.result.error \notin MissingArguments)
  /\ [][\A p \in Procs :
          (/\ InToRpn(p) /\ calls'[p].pc = "toRpn"
           /\ calls[p].t <= Len(heap[p].tokens)
           /\ IsClose(heap[p].tokens[calls[p].t])
           /\ Last(heap[p].argStack) # null) =>
             /\ Last(heap'[p].output).type = "function"
             /\ Last(heap'[p].output).argCount = Last(heap[p].argStack) + 1]_vars

\* max(3,1,2) has been translated to 3 1 2 max/3 (two commas and the last
\* argument), and the call has returned 3.
C32_Witness ==
  \E p \in Procs :
    /\ Returned(p)
    /\ calls[p].expression = <<"m", "a", "x", "(", "3", ",", "1", ",", "2", ")">>
    /\ heap[p].output
         = <<NumberToken(Num(3)), NumberToken(Num(1)), NumberToken(Num(2)),
             RpnFunction("max", 3)>>
    /\ calls[p].result = [ok |-> TRUE, value |-> Num(3)]

====
